---- MODULE Spec2Model ----
(***************************************************************************)
(* Devr.AI backend: the ReAct supervisor (Think -> Act -> Observe) of the  *)
(* DevRel agent, backend/app/agents/devrel/nodes/react_supervisor.py, its  *)
(* prompt and the tool wrappers that feed results back into the session.   *)
(*                                                                         *)
(* Text is modelled as a sequence of tokens: a token is a run of           *)
(* characters that the parser never looks inside ("ACT:", "web_search",    *)
(* one blank, one line feed).  strip, split, startswith, replace and lower *)
(* are computed on these sequences the way Python computes them on str.    *)
(***************************************************************************)
EXTENDS Integers, Sequences, FiniteSets, TLC

\* ------------------------------------------------------------------------
\* Bounds of the model
\* ------------------------------------------------------------------------

\* longest reasoning-engine response, in tokens, that ParseSpec enumerates
MaxLen == 4

\* most tool executions of one session that Spec and LoopSpec follow
MaxAppends == 2

\* most supervisor passes of one session that Spec follows
MaxPasses == 2

\* most messages that the sessions of HilSpec send between them, and most
\* messages of a state that RouteSpec routes
MaxTurns == 4

\* most tasks that QueueSpec enqueues
MaxTasks == 3

\* EventBus: calls of register_handler and register_global_handler
MaxRegistrations == 2

\* EventBus: calls of dispatch
MaxDispatches == 1

\* RateSpec: calls of is_allowed, steps of the clock, and the largest limit
\* that a limiter is configured with
MaxCalls == 3

MaxElapses == 2

MaxLimit == 2

\* RaceSpec: tasks of the one session that the workers take
MaxJobs == 3

\* ------------------------------------------------------------------------
\* Program constants
\* ------------------------------------------------------------------------

MAX_ITERATIONS == 10

MAX_TOOL_RESULTS == 20

VALID_ACTIONS == {"web_search", "faq_handler", "onboarding", "github_toolkit", "complete"}

\* the placeholders of REACT_SUPERVISOR_PROMPT
PromptPlaceholders ==
    {"latest_message", "platform", "interaction_count", "iteration_count",
     "current_task", "conversation_history", "tool_results"}

\* the keyword arguments react_supervisor_node passes to str.format
FormatKwargs ==
    {"latest_message", "platform", "interaction_count", "iteration_count",
     "conversation_history", "tool_results"}

\* str.format raises KeyError when a placeholder has no argument
FormatRaises == PromptPlaceholders \ FormatKwargs # {}

\* ------------------------------------------------------------------------
\* str operations on token sequences
\* ------------------------------------------------------------------------

Whitespace == {" ", "\n"}

RECURSIVE lstrip(_)
lstrip(s) ==
    IF s # <<>> /\ Head(s) \in Whitespace THEN lstrip(Tail(s)) ELSE s

RECURSIVE rstrip(_)
rstrip(s) ==
    IF s # <<>> /\ s[Len(s)] \in Whitespace
    THEN rstrip(SubSeq(s, 1, Len(s) - 1))
    ELSE s

strip(s) == rstrip(lstrip(s))

\* s.split('\n'): the pieces between line feeds, empty pieces included
RECURSIVE split(_)
split(s) ==
    IF \A i \in 1..Len(s) : s[i] # "\n"
    THEN <<s>>
    ELSE LET i == CHOOSE j \in 1..Len(s) :
                      s[j] = "\n" /\ \A k \in 1..(j - 1) : s[k] # "\n"
         IN  <<SubSeq(s, 1, i - 1)>> \o split(SubSeq(s, i + 1, Len(s)))

startswith(s, marker) == s # <<>> /\ s[1] = marker

\* s.replace(marker, ""): every occurrence is removed
replace(s, marker) == SelectSeq(s, LAMBDA t : t # marker)

lowerToken(t) ==
    CASE t = "Web_Search" -> "web_search"
      [] t = "THINK:"     -> "think:"
      [] t = "ACT:"       -> "act:"
      [] t = "REASON:"    -> "reason:"
      [] OTHER            -> t

lower(s) == [i \in 1..Len(s) |-> lowerToken(s[i])]

\* " ".join(parts)
RECURSIVE join(_)
join(parts) ==
    IF parts = <<>> THEN <<>>
    ELSE IF Len(parts) = 1 THEN parts[1]
    ELSE parts[1] \o <<" ">> \o join(Tail(parts))

\* the str a token sequence spells, when it is a single token; "" for the
\* empty str; any other text is no action name
AsName(s) ==
    IF s = <<>> THEN ""
    ELSE IF Len(s) = 1 THEN s[1]
    ELSE "<text>"

\* ------------------------------------------------------------------------
\* _parse_supervisor_decision
\* ------------------------------------------------------------------------

\* a parser whose default names a tool
DefaultDecision_names_tool == [action |-> "faq_handler", reasoning |-> <<>>, thinking |-> <<>>]

DefaultDecision == [action |-> "complete", reasoning |-> <<>>, thinking |-> <<>>]

\* if current_section and content_buffer: decision[current_section] = " ".join(content_buffer)
Flush(p) ==
    IF p.current_section # "None" /\ p.content_buffer # <<>>
    THEN [p.decision EXCEPT ![p.current_section] = join(p.content_buffer)]
    ELSE p.decision

\* a parser that takes the ACT value as it is written
ValidatedAction_unchecked(action) == action

ValidatedAction(action) ==
    IF action \in VALID_ACTIONS THEN action ELSE "complete"

\* a parser that keeps the action of the first ACT line that names one
ParseLine_first_act_wins(p, rawline) ==
    LET line == strip(rawline) IN
    IF line = <<>> THEN p
    ELSE IF startswith(line, "THINK:") THEN
        [decision        |-> Flush(p),
         current_section |-> "thinking",
         content_buffer  |-> <<strip(replace(line, "THINK:"))>>]
    ELSE IF startswith(line, "ACT:") THEN
        [decision        |-> IF p.decision.action # "complete" THEN Flush(p)
                             ELSE [Flush(p) EXCEPT !.action =
                                     ValidatedAction(AsName(lower(strip(replace(line, "ACT:")))))],
         current_section |-> "None",
         content_buffer  |-> <<>>]
    ELSE IF startswith(line, "REASON:") THEN
        [decision        |-> Flush(p),
         current_section |-> "reasoning",
         content_buffer  |-> <<strip(replace(line, "REASON:"))>>]
    ELSE IF p.current_section # "None" THEN
        [p EXCEPT !.content_buffer = Append(p.content_buffer, line)]
    ELSE p

\* one pass of the body of "for line in response.strip().split('\n')"
ParseLine(p, rawline) ==
    LET line == strip(rawline) IN
    IF line = <<>> THEN p
    ELSE IF startswith(line, "THINK:") THEN
        [decision        |-> Flush(p),
         current_section |-> "thinking",
         content_buffer  |-> <<strip(replace(line, "THINK:"))>>]
    ELSE IF startswith(line, "ACT:") THEN
        [decision        |-> [Flush(p) EXCEPT !.action =
                                 ValidatedAction(AsName(lower(strip(replace(line, "ACT:")))))],
         current_section |-> "None",
         content_buffer  |-> <<>>]
    ELSE IF startswith(line, "REASON:") THEN
        [decision        |-> Flush(p),
         current_section |-> "reasoning",
         content_buffer  |-> <<strip(replace(line, "REASON:"))>>]
    ELSE IF p.current_section # "None" THEN
        [p EXCEPT !.content_buffer = Append(p.content_buffer, line)]
    ELSE p

RECURSIVE ParseLines(_, _)
ParseLines(p, lines) ==
    IF lines = <<>> THEN p
    ELSE ParseLines(ParseLine(p, Head(lines)), Tail(lines))

parse_supervisor_decision(response) ==
    IF strip(response) = <<>> THEN DefaultDecision
    ELSE LET p == ParseLines([decision        |-> DefaultDecision,
                              current_section |-> "None",
                              content_buffer  |-> <<>>],
                             split(strip(response)))
             d == Flush(p)
         IN  [d EXCEPT !.action = ValidatedAction(d.action)]

\* ------------------------------------------------------------------------
\* AgentState and the responses of the supervisor
\* ------------------------------------------------------------------------

\* a key that the dict does not hold
Missing == "<missing>"

\* context.get("supervisor_decision", {}) when the key is absent
EmptyDict == [action |-> Missing, reasoning |-> <<>>, thinking |-> <<>>]

\* dict.get(key, default)
Get(value, default) == IF value = Missing THEN default ELSE value

validate_state(state) == state.session_id # ""

\* an error response that records the error and leaves the decision alone
create_error_response_keeps_decision(state, error_message) ==
    [context |-> [state.context EXCEPT !.error = error_message],
     current_task |-> <<"supervisor_decided", "complete">>]

create_error_response(state, error_message) ==
    [context |-> [state.context EXCEPT
                     !.supervisor_decision = [action    |-> "complete",
                                              reasoning |-> error_message,
                                              thinking  |-> <<"Error occurred">>],
                     !.error = error_message],
     current_task |-> <<"supervisor_decided", "complete">>]

\* a completion response that records the reason and leaves the decision alone
create_completion_response_keeps_decision(state, reason) ==
    [context |-> [state.context EXCEPT !.completion_reason = reason],
     current_task |-> <<"supervisor_decided", "complete">>]

\* a completion response that counts the forced pass as an iteration
create_completion_response_counts_pass(state, reason) ==
    [context |-> [state.context EXCEPT
                     !.supervisor_decision = [action    |-> "complete",
                                              reasoning |-> reason,
                                              thinking  |-> <<"Completing task">>],
                     !.completion_reason = reason,
                     !.iteration_count = state.context.iteration_count + 1],
     current_task |-> <<"supervisor_decided", "complete">>]

create_completion_response(state, reason) ==
    [context |-> [state.context EXCEPT
                     !.supervisor_decision = [action    |-> "complete",
                                              reasoning |-> reason,
                                              thinking  |-> <<"Completing task">>],
                     !.completion_reason = reason],
     current_task |-> <<"supervisor_decided", "complete">>]

\* the node's return value, the number of llm.ainvoke calls it made, and
\* whether an exception left the node instead of a return value.
\* llm = [raises |-> BOOLEAN, content |-> the text the engine would answer]

\* the node with prompt.format outside the try block
react_supervisor_node_uncaught(state, llm) ==
    IF ~validate_state(state) THEN
        [update    |-> create_error_response(state, <<"Invalid state">>),
         llm_calls |-> 0, raises |-> FALSE]
    ELSE IF state.context.iteration_count >= MAX_ITERATIONS THEN
        [update    |-> create_completion_response(state, <<"Maximum iterations reached">>),
         llm_calls |-> 0, raises |-> FALSE]
    ELSE IF FormatRaises THEN
        [update    |-> [context |-> state.context],
         llm_calls |-> 0, raises |-> TRUE]
    ELSE IF llm.raises THEN
        [update    |-> create_error_response(state, <<"Supervisor error:", "llm">>),
         llm_calls |-> 1, raises |-> FALSE]
    ELSE
        LET decision == parse_supervisor_decision(llm.content) IN
        [update    |-> [context |-> [state.context EXCEPT
                                        !.supervisor_thinking = llm.content,
                                        !.supervisor_decision = decision,
                                        !.iteration_count = state.context.iteration_count + 1,
                                        !.last_action = decision.action],
                        current_task |-> <<"supervisor_decided", decision.action>>],
         llm_calls |-> 1, raises |-> FALSE]

react_supervisor_node(state, llm) ==
    IF ~validate_state(state) THEN
        [update    |-> create_error_response(state, <<"Invalid state">>),
         llm_calls |-> 0, raises |-> FALSE]
    ELSE IF state.context.iteration_count >= MAX_ITERATIONS THEN
        [update    |-> create_completion_response(state, <<"Maximum iterations reached">>),
         llm_calls |-> 0, raises |-> FALSE]
    ELSE IF FormatRaises THEN
        [update    |-> create_error_response(state, <<"Supervisor error:", "KeyError">>),
         llm_calls |-> 0, raises |-> FALSE]
    ELSE IF llm.raises THEN
        [update    |-> create_error_response(state, <<"Supervisor error:", "llm">>),
         llm_calls |-> 1, raises |-> FALSE]
    ELSE
        LET decision == parse_supervisor_decision(llm.content) IN
        [update    |-> [context |-> [state.context EXCEPT
                                        !.supervisor_thinking = llm.content,
                                        !.supervisor_decision = decision,
                                        !.iteration_count = state.context.iteration_count + 1,
                                        !.last_action = decision.action],
                        current_task |-> <<"supervisor_decided", decision.action>>],
         llm_calls |-> 1, raises |-> FALSE]

supervisor_decision_router(state) ==
    LET action == Get(state.context.supervisor_decision.action, "complete") IN
    IF state.context.iteration_count > MAX_ITERATIONS THEN "complete"
    ELSE IF action \notin VALID_ACTIONS THEN "complete"
    ELSE action

\* ------------------------------------------------------------------------
\* add_tool_result and the tool wrappers
\* ------------------------------------------------------------------------

\* tool_results[:20]
LastEntries_keeps_oldest(tool_results) ==
    SubSeq(tool_results, 1, MAX_TOOL_RESULTS)

\* tool_results[-20:]
LastEntries(tool_results) ==
    SubSeq(tool_results, Len(tool_results) - MAX_TOOL_RESULTS + 1, Len(tool_results))

\* a trim that lets one entry too many through
TrimToolResults_off_by_one(tool_results) ==
    IF Len(tool_results) > MAX_TOOL_RESULTS + 1 THEN LastEntries(tool_results)
    ELSE tool_results

TrimToolResults(tool_results) ==
    IF Len(tool_results) > MAX_TOOL_RESULTS THEN LastEntries(tool_results)
    ELSE tool_results

\* result = [isdict, status, tag]: tag is the identity of the result object
AsDict(result) ==
    IF result.isdict THEN result
    ELSE [isdict |-> TRUE, status |-> "none", tag |-> result.tag]

\* update: the returned dict; arg_tool_results: the list object held by the
\* state that was passed in, as the call leaves it.  The append is in place on
\* the list that context.get returns: the list of the state when the context
\* has one, and a new list when it has none (no code of the repository
\* stores an empty list, so that an empty list is a missing key)
add_tool_result(state, tool_name, result) ==
    IF ~validate_state(state) THEN
        [update           |-> [context |-> state.context],
         arg_tool_results |-> state.context.tool_results]
    ELSE
        LET tool_entry == [tool      |-> tool_name,
                           result    |-> AsDict(result),
                           iteration |-> state.context.iteration_count,
                           timestamp |-> state.context.iteration_count]
            appended   == Append(state.context.tool_results, tool_entry)
        IN  [update |-> [context      |-> [state.context EXCEPT
                                              !.tool_results = TrimToolResults(appended)],
                         tools_used   |-> Append(state.tools_used, tool_name),
                         current_task |-> <<"completed", tool_name>>],
             arg_tool_results |-> IF state.context.tool_results = <<>> THEN <<>>
                                  ELSE appended]

\* handler_result.get("task_result", {})
TaskResult(handler_result, tag) ==
    IF handler_result.has_task_result
    THEN [isdict |-> handler_result.isdict, status |-> handler_result.status, tag |-> tag]
    ELSE [isdict |-> TRUE, status |-> "none", tag |-> tag]

\* The wrappers return [raises, result]: an exception of the awaited handler
\* leaves web_search, faq_handler and onboarding as it is (no try block), and
\* then there is no return value; result is what add_tool_result returned.
web_search_tool_node(state, handler_result, tag) ==
    [raises |-> handler_result.raises,
     result |-> add_tool_result(state, "web_search", TaskResult(handler_result, tag))]

faq_handler_tool_node(state, handler_result, tag) ==
    [raises |-> handler_result.raises,
     result |-> add_tool_result(state, "faq_handler", TaskResult(handler_result, tag))]

onboarding_tool_node(state, handler_result, tag) ==
    [raises |-> handler_result.raises,
     result |-> add_tool_result(state, "onboarding", TaskResult(handler_result, tag))]

\* github = [raises, isdict, status]: what github_toolkit.execute does; its
\* exception is caught and becomes an error result
github_toolkit_tool_node(state, github, tag) ==
    [raises |-> FALSE,
     result |-> add_tool_result(state, "github_toolkit",
                    IF github.raises
                    THEN [isdict |-> TRUE, status |-> "error", tag |-> tag]
                    ELSE [isdict |-> github.isdict, status |-> github.status,
                          tag |-> tag])]

\* the graph runtime writes the keys of a node's return value into the state
Merge(state, update) ==
    [session_id   |-> state.session_id,
     context      |-> update.context,
     current_task |-> IF "current_task" \in DOMAIN update
                      THEN update.current_task ELSE state.current_task,
     tools_used   |-> IF "tools_used" \in DOMAIN update
                      THEN update.tools_used ELSE state.tools_used]

\* ------------------------------------------------------------------------
\* The technical support workflow (workflows/technical_support.py) and the
\* node of the agent graph that runs it (handlers/technical_support.py).
\* A workflow state w holds the fields of AgentState that the workflow reads
\* or writes; messages is the number of messages in the list.
\* ------------------------------------------------------------------------

\* Python's None, as distinct from the text "None"
PyNone == "<None>"

\* the truth value of an optional text
Truthy(value) == value \notin {PyNone, ""}

ClarifyQuestion == "I can help with that. To start, are you working in a specific repository?"

ProposalText == "Okay, based on that, I plan to investigate the following. Right first step?"

RephraseRequest == "I'm having trouble deciding the next step. Can you please rephrase your problem?"

PresentFallback == "The tool returned. What would you like to do next?"

clarify_context_node(w) ==
    [w EXCEPT !.hil_message = ClarifyQuestion,
              !.current_task = "awaiting_context",
              !.final_response = ClarifyQuestion]

\* llm = [raises, isdict, action]: the chain raises, or the parser returns a
\* JSON value, a dict or not, with the action it names

\* an except clause that leaves current_task as it was
propose_action_node_keeps_task(w, llm) ==
    IF llm.raises \/ ~llm.isdict THEN
        [w EXCEPT !.hil_message = RephraseRequest,
                  !.final_response = RephraseRequest]
    ELSE
        [w EXCEPT !.hil_message = ProposalText,
                  !.current_task = "awaiting_action_approval",
                  !.final_response = ProposalText,
                  !.context = [supervisor_decision |-> [action |-> llm.action]]]

propose_action_node(w, llm) ==
    IF llm.raises \/ ~llm.isdict THEN
        [w EXCEPT !.hil_message = RephraseRequest,
                  !.current_task = "awaiting_context",
                  !.final_response = RephraseRequest]
    ELSE
        [w EXCEPT !.hil_message = ProposalText,
                  !.current_task = "awaiting_action_approval",
                  !.final_response = ProposalText,
                  !.context = [supervisor_decision |-> [action |-> llm.action]]]

\* a node that runs the executor whatever the context holds
RunsExecutor_unchecked(w) == TRUE

\* whether execute_action_node gets as far as running the executor
RunsExecutor(w) == w.context.supervisor_decision.action = "github_toolkit"

\* executor = [raises]: what the executor of the toolkit does when it is run
execute_action_node(w, executor) ==
    IF ~RunsExecutor(w) \/ executor.raises THEN
        [w EXCEPT !.task_result = "error", !.current_task = "action_executed"]
    ELSE
        [w EXCEPT !.task_result = "success", !.current_task = "action_executed"]

\* a node that presents and leaves current_task as execute_action set it
present_options_node_keeps_task(w, llm) ==
    LET hil_message == IF llm.raises THEN PresentFallback ELSE llm.content IN
    [w EXCEPT !.hil_message = hil_message,
              !.final_response = hil_message]

\* llm = [raises, content]
present_options_node(w, llm) ==
    LET hil_message == IF llm.raises THEN PresentFallback ELSE llm.content IN
    [w EXCEPT !.hil_message = hil_message,
              !.current_task = "awaiting_option_choice",
              !.final_response = hil_message]

wait_for_user_input_node(w) ==
    [w EXCEPT !.hil_message = PyNone, !.waiting_for_human_input = FALSE]

smart_entry_node(w) == w

pause_marker_node(w) == w

\* resumes on an awaiting_option_choice by ending the workflow
resume_router_no_loop(w) ==
    IF w.current_task = "awaiting_context" THEN "propose_action"
    ELSE IF w.current_task = "awaiting_action_approval" THEN "execute_action"
    ELSE "__end__"

resume_router(w) ==
    IF w.current_task = "awaiting_context" THEN "propose_action"
    ELSE IF w.current_task = "awaiting_action_approval" THEN "execute_action"
    ELSE IF w.current_task = "awaiting_option_choice" THEN "propose_action_loop"
    ELSE "__end__"

\* the node that add_conditional_edges gives to a label of resume_router
ResumeEdges(label) ==
    CASE label = "propose_action"      -> "propose_action"
      [] label = "execute_action"      -> "execute_action"
      [] label = "propose_action_loop" -> "propose_action"
      [] label = "__end__"             -> "END"

\* takes any message at all for a resumption
smart_entry_router_any_message(w) ==
    IF Truthy(w.current_task) /\ w.current_task # "None" /\ w.messages > 0
    THEN "wait_for_user"
    ELSE "clarify_context"

smart_entry_router(w) ==
    IF Truthy(w.current_task) /\ w.current_task # "None" /\ w.messages > 1
    THEN "wait_for_user"
    ELSE "clarify_context"

\* compile(interrupt_before = ...)
InterruptBefore == {"pause_here"}

\* a graph whose propose_action leads on to execute_action
next_node_without_pause(node, w) ==
    CASE node = "smart_entry"     -> smart_entry_router(w)
      [] node = "clarify_context" -> "pause_here"
      [] node = "pause_here"      -> "wait_for_user"
      [] node = "wait_for_user"   -> ResumeEdges(resume_router(w))
      [] node = "propose_action"  -> "execute_action"
      [] node = "execute_action"  -> "present_options"
      [] node = "present_options" -> "pause_here"

\* the edges of the workflow: the node that follows node, w being the state
\* that node has left
next_node(node, w) ==
    CASE node = "smart_entry"     -> smart_entry_router(w)
      [] node = "clarify_context" -> "pause_here"
      [] node = "pause_here"      -> "wait_for_user"
      [] node = "wait_for_user"   -> ResumeEdges(resume_router(w))
      [] node = "propose_action"  -> "pause_here"
      [] node = "execute_action"  -> "present_options"
      [] node = "present_options" -> "pause_here"

\* out = [propose, executor, present]: what the engine and the executor do
\* when a node of this invocation turns to them
RunNode(node, w, out) ==
    CASE node = "smart_entry"     -> smart_entry_node(w)
      [] node = "clarify_context" -> clarify_context_node(w)
      [] node = "pause_here"      -> pause_marker_node(w)
      [] node = "wait_for_user"   -> wait_for_user_input_node(w)
      [] node = "propose_action"  -> propose_action_node(w, out.propose)
      [] node = "execute_action"  -> execute_action_node(w, out.executor)
      [] node = "present_options" -> present_options_node(w, out.present)

\* whether the try block of the node raises, on state w
NodeRaises(node, w, out) ==
    CASE node = "propose_action"  -> out.propose.raises \/ ~out.propose.isdict
      [] node = "execute_action"  -> ~RunsExecutor(w) \/ out.executor.raises
      [] node = "present_options" -> out.present.raises
      [] OTHER                    -> FALSE

\* the run of the graph from node on: it stops before a node of
\* InterruptBefore, which stays in next, or at END.  trace lists the nodes that
\* have run, executor_ran says whether the executor was run, failed holds
\* the nodes whose try block raised.
RECURSIVE RunGraph(_, _, _, _, _, _)
RunGraph(node, w, trace, executor_ran, failed, out) ==
    IF node = "END" THEN
        [values |-> w, next |-> <<>>, trace |-> trace,
         executor_ran |-> executor_ran, failed |-> failed]
    ELSE IF node \in InterruptBefore THEN
        [values |-> w, next |-> <<node>>, trace |-> trace,
         executor_ran |-> executor_ran, failed |-> failed]
    ELSE
        LET after == RunNode(node, w, out) IN
        RunGraph(next_node(node, after), after, Append(trace, node),
                 executor_ran \/ (node = "execute_action" /\ RunsExecutor(w)),
                 IF NodeRaises(node, w, out) THEN failed \cup {node} ELSE failed,
                 out)

\* the messages channel adds what a write brings to what it holds
AddMessages(held, written) == held + written

NoCheckpoint == [next |-> <<"<no checkpoint>">>]

\* every checkpoint is for the same thread, whatever the parent thread is
sub_graph_thread_id_shared(parent_thread_id) == <<"-hil">>

\* f"{parent_thread_id}-hil"
sub_graph_thread_id(parent_thread_id) == Append(parent_thread_id, "-hil")

\* a dump that keeps the current_task of the session
FreshPayload_keeps_task(state) ==
    [messages |-> 1,
     current_task |-> state.current_task,
     hil_message |-> PyNone,
     final_response |-> state.final_response,
     context |-> state.context,
     task_result |-> state.task_result,
     waiting_for_human_input |-> state.waiting_for_human_input]

\* state.model_dump() with the three keys that the handler overwrites
FreshPayload(state) ==
    [messages |-> 1,
     current_task |-> PyNone,
     hil_message |-> PyNone,
     final_response |-> state.final_response,
     context |-> state.context,
     task_result |-> state.task_result,
     waiting_for_human_input |-> state.waiting_for_human_input]

\* the state that the workflow starts from: the values of the checkpoint of
\* the thread with the input written into them
ApplyInput(existing, is_interrupted, state) ==
    IF is_interrupted THEN
        [existing.values EXCEPT !.messages = AddMessages(@, 1)]
    ELSE IF existing = NoCheckpoint THEN
        FreshPayload(state)
    ELSE
        [FreshPayload(state) EXCEPT !.messages = AddMessages(existing.values.messages, 1)]

\* a checkpointer that keeps what it is asked to delete
delete_keeps(checkpoints, thread_id) == checkpoints

\* checkpointer.delete(sub_graph_config)
delete(checkpoints, thread_id) ==
    [checkpoints EXCEPT ![thread_id] = NoCheckpoint]

\* what the handler did, for the properties: the thread of the workflow, the
\* content of state.messages[-1], the current_task of its checkpoint before
\* and the messages of its state after, the current_task that the workflow
\* started with, the nodes that ran, the return statement that was reached,
\* and where the run of the workflow stopped: the nodes it waits before, with
\* the current_task and the hil_message of its state there
NoRun ==
    [branch |-> "None", thread |-> <<>>, reply |-> "None", resumed |-> FALSE,
     task_before |-> PyNone,
     messages_before |-> 0, messages_after |-> 0, trace |-> <<>>,
     executor_ran |-> FALSE, failed |-> {}, task_result |-> PyNone,
     entry_task |-> PyNone,
     next |-> <<>>, task_after |-> PyNone, prompt |-> PyNone]

\* a return value that says nothing of hil_message
FinishedReturn_keeps_prompt(values) ==
    [final_response |-> values.final_response,
     current_task   |-> "technical_support_complete"]

\* what the handler returns for a workflow that has finished
FinishedReturn(values) ==
    [final_response |-> values.final_response,
     hil_message    |-> PyNone,
     current_task   |-> "technical_support_complete"]

\* a config without thread_id, or with an empty one
NoThread == <<>>

\* return {}
NoUpdate == [f \in {} |-> PyNone]

\* the node of the agent graph.  thread_id is config's thread_id, checkpoints
\* the checkpointer of the workflow, out.get_state_raises says whether the
\* checkpointer fails when it is asked for the state of the thread; the result holds the return value, the
\* checkpointer as the call leaves it, and the record of the run.
handle_technical_support_node(state, thread_id, checkpoints, out) ==
    IF thread_id = NoThread THEN
        [update      |-> [errors |-> state.errors + 1,
                          current_task |-> "technical_support_error"],
         checkpoints |-> checkpoints,
         run         |-> [NoRun EXCEPT !.branch = "error"]]
    ELSE IF state.messages = 0 THEN
        [update      |-> NoUpdate,
         checkpoints |-> checkpoints,
         run         |-> [NoRun EXCEPT !.branch = "no_messages",
                                       !.thread = sub_graph_thread_id(thread_id)]]
    ELSE IF out.get_state_raises THEN
        [update      |-> [errors |-> state.errors + 1,
                          current_task |-> "technical_support_error"],
         checkpoints |-> checkpoints,
         run         |-> [NoRun EXCEPT !.branch = "error",
                                       !.thread = sub_graph_thread_id(thread_id)]]
    ELSE
        LET sub            == sub_graph_thread_id(thread_id)
            existing       == checkpoints[sub]
            is_interrupted == existing # NoCheckpoint /\ existing.next # <<>>
            input          == ApplyInput(existing, is_interrupted, state)
            result         == RunGraph("smart_entry", input, <<>>, FALSE, {}, out)
            saved          == [checkpoints EXCEPT
                                  ![sub] = [values |-> result.values,
                                            next   |-> result.next]]
            run            == [branch          |-> "paused",
                               thread          |-> sub,
                               reply           |-> state.last_reply,
                               resumed         |-> is_interrupted,
                               task_before     |-> IF existing = NoCheckpoint THEN PyNone
                                                   ELSE existing.values.current_task,
                               messages_before |-> IF existing = NoCheckpoint THEN 0
                                                   ELSE existing.values.messages,
                               messages_after  |-> result.values.messages,
                               trace           |-> result.trace,
                               executor_ran    |-> result.executor_ran,
                               failed          |-> result.failed,
                               task_result     |-> result.values.task_result,
                               entry_task      |-> input.current_task,
                               next            |-> result.next,
                               task_after      |-> result.values.current_task,
                               prompt          |-> result.values.hil_message]
        IN  IF Truthy(result.values.hil_message) THEN
                [update      |-> [final_response |-> result.values.final_response,
                                  hil_message    |-> result.values.hil_message,
                                  current_task   |-> state.current_task],
                 checkpoints |-> saved,
                 run         |-> run]
            ELSE
                [update      |-> FinishedReturn(result.values),
                 checkpoints |-> delete(saved, sub),
                 run         |-> [run EXCEPT !.branch = "finished"]]

\* the graph runtime writes the keys of the handler's return value into the
\* state of the session
MergeSession(state, update) ==
    [f \in DOMAIN state |-> IF f \in DOMAIN update THEN update[f] ELSE state[f]]

\* ------------------------------------------------------------------------
\* The work queue (AsyncQueueManager, app/core/orchestration/queue_manager.py,
\* of which only the callers are at hand) and the caller that enqueues the
\* messages of Discord (integrations/discord/bot.py)
\* ------------------------------------------------------------------------

\* queue_manager.start(num_workers=3)
NumWorkers == 3

QueuePriorities == {"HIGH", "MEDIUM", "LOW"}

\* a map that has lost the entry of "high"
PriorityOf_without_high(label) ==
    CASE label = "medium" -> "MEDIUM"
      [] label = "low"    -> "LOW"
      [] OTHER            -> "MEDIUM"

\* priority_map.get(triage_result.get("priority"), QueuePriority.MEDIUM)
PriorityOf(label) ==
    CASE label = "high"   -> "HIGH"
      [] label = "medium" -> "MEDIUM"
      [] label = "low"    -> "LOW"
      [] OTHER            -> "MEDIUM"

\* HIGH before MEDIUM before LOW
Rank(priority) ==
    CASE priority = "HIGH"   -> 3
      [] priority = "MEDIUM" -> 2
      [] priority = "LOW"    -> 1

\* a queue that takes the newest task of the highest priority
NextIndex_newest(waiting) ==
    CHOOSE i \in 1..Len(waiting) :
        /\ \A j \in 1..Len(waiting) : Rank(waiting[j].priority) <= Rank(waiting[i].priority)
        /\ \A j \in (i + 1)..Len(waiting) : Rank(waiting[j].priority) < Rank(waiting[i].priority)

\* the place in waiting, which is in the order of arrival, of the task that
\* is pulled next: the first of those whose priority is the highest
NextIndex(waiting) ==
    CHOOSE i \in 1..Len(waiting) :
        /\ \A j \in 1..Len(waiting) : Rank(waiting[j].priority) <= Rank(waiting[i].priority)
        /\ \A j \in 1..(i - 1) : Rank(waiting[j].priority) < Rank(waiting[i].priority)

\* a pull that looks at the task and leaves it in the queue
Remove_peek(waiting, i) == waiting

\* waiting without its i-th task
Remove(waiting, i) ==
    SubSeq(waiting, 1, i - 1) \o SubSeq(waiting, i + 1, Len(waiting))

\* a worker that the exception of a handler ends
AfterHandler_dies(worker_state, raises) ==
    IF raises THEN "stopped" ELSE "idle"

\* the state of a worker after the handler of its task has returned or
\* raised: the exception is caught and the worker pulls again
AfterHandler(worker_state, raises) == "idle"

\* ------------------------------------------------------------------------
\* EventBus (app/core/events/event_bus.py)
\* ------------------------------------------------------------------------

\* members of EventType that handlers are registered for (enums.py)
EventTypes == {"issue.created", "faq.requested"}

\* the coroutine functions that are registered: sample_handler of
\* event_bus_init.py and FAQHandler.handle
HandlerFuncs == {"sample_handler", "handle"}

\* EventBus.__init__: self.handlers = {}
NoHandlers == [t \in {} |-> <<>>]

\* a registration that forgets the handlers that the type had
_add_handler_replaces(handlers, event_type, handler_func) ==
    [t \in DOMAIN handlers \cup {event_type} |->
        IF t = event_type THEN <<handler_func>> ELSE handlers[t]]

\* EventBus._add_handler
_add_handler(handlers, event_type, handler_func) ==
    LET with_list == IF event_type \notin DOMAIN handlers
                     THEN handlers @@ (event_type :> <<>>)
                     ELSE handlers
    IN  [with_list EXCEPT ![event_type] = Append(@, handler_func)]

\* for et in event_type: self._add_handler(et, handler_func)
RECURSIVE AddEach(_, _, _)
AddEach(handlers, types, handler_func) ==
    IF types = <<>> THEN handlers
    ELSE AddEach(_add_handler(handlers, Head(types), handler_func),
                 Tail(types), handler_func)

\* EventBus.register_handler: event_type is one type, types = <<type>>, or a
\* list of types; platform is not used
register_handler(handlers, event_type, handler_func) ==
    IF event_type.is_list
    THEN AddEach(handlers, event_type.types, handler_func)
    ELSE _add_handler(handlers, event_type.types[1], handler_func)

\* EventBus.register_global_handler
register_global_handler(global_handlers, handler_func) ==
    Append(global_handlers, handler_func)

\* asyncio.create_task(handler(event)) for each handler of a list: the
\* coroutine is made and scheduled, and nothing of it has run
CreateTasks(handler_list, event) ==
    [i \in 1..Len(handler_list) |->
        [handler |-> handler_list[i], event |-> event, status |-> "pending"]]

\* a dispatch that refuses an event that no handler is registered for
dispatch_rejects_unknown(handlers, global_handlers, event) ==
    IF event.event_type \in DOMAIN handlers
    THEN [created |-> CreateTasks(global_handlers, event)
                        \o CreateTasks(handlers[event.event_type], event),
          result  |-> PyNone,
          raises  |-> FALSE]
    ELSE [created |-> <<>>, result |-> PyNone, raises |-> TRUE]

\* a dispatch that awaits its handlers and returns what they return
dispatch_gathers(handlers, global_handlers, event) ==
    LET scheduled == CreateTasks(global_handlers, event)
                       \o (IF event.event_type \in DOMAIN handlers
                           THEN CreateTasks(handlers[event.event_type], event)
                           ELSE <<>>)
    IN  [created |-> [i \in 1..Len(scheduled) |-> [scheduled[i] EXCEPT !.status = "done"]],
         result  |-> "results",
         raises  |-> FALSE]

\* EventBus.dispatch: the tasks it creates, what it returns and whether it
\* raises
dispatch(handlers, global_handlers, event) ==
    [created |-> CreateTasks(global_handlers, event)
                   \o (IF event.event_type \in DOMAIN handlers
                       THEN CreateTasks(handlers[event.event_type], event)
                       ELSE <<>>),
     result  |-> PyNone,
     raises  |-> FALSE]

\* ------------------------------------------------------------------------
\* RateLimiter
\* ------------------------------------------------------------------------

\* the windows of is_allowed, and the pause between two cleanups, in seconds
MinuteWindow == 60

HourWindow == 3600

BurstWindow == 1

cleanup_interval == 300

\* the arguments that RateLimiter() takes when none are given
DefaultLimits ==
    [requests_per_minute |-> 60, requests_per_hour |-> 1000, burst_size |-> 10]

Identifiers == {"10.0.0.1", "10.0.0.2"}

\* RateLimiter.__init__ at the time current_time: request_history is a
\* defaultdict(list), so that an identifier without a key has the empty list
RateLimiter(limits, current_time) ==
    [limits          |-> limits,
     request_history |-> [ip \in Identifiers |-> <<>>],
     last_cleanup    |-> current_time]

\* [(ts, count) for ts, count in history if ts > cutoff]
Since(history, cutoff) == SelectSeq(history, LAMBDA e : e.ts > cutoff)

RECURSIVE SumCounts(_)
\* sum(count for ts, count in history)
SumCounts(history) ==
    IF history = <<>> THEN 0
    ELSE Head(history).count + SumCounts(Tail(history))

\* _cleanup_old_requests: an identifier whose list becomes empty loses its key
_cleanup_old_requests(self, current_time) ==
    IF current_time - self.last_cleanup < cleanup_interval THEN self
    ELSE [self EXCEPT
            !.request_history = [ip \in Identifiers |->
                                    Since(self.request_history[ip], current_time - HourWindow)],
            !.last_cleanup = current_time]

\* Optional[int]: None, or a number of seconds
NoRetry == <<>>

Retry(seconds) == <<seconds>>

\* a limiter that does not look at the last minute
is_allowed_without_minute(self, identifier, current_time) ==
    LET cleaned == _cleanup_old_requests(self, current_time)
        history == cleaned.request_history[identifier]
    IN  IF SumCounts(Since(history, current_time - HourWindow))
               >= self.limits.requests_per_hour THEN
            [self |-> cleaned, is_allowed |-> FALSE, retry_after |-> Retry(3600)]
        ELSE IF SumCounts(Since(history, current_time - BurstWindow))
               >= self.limits.burst_size THEN
            [self |-> cleaned, is_allowed |-> FALSE, retry_after |-> Retry(1)]
        ELSE
            [self |-> [cleaned EXCEPT !.request_history[identifier] =
                          Append(history, [ts |-> current_time, count |-> 1])],
             is_allowed |-> TRUE, retry_after |-> NoRetry]

\* is_allowed: the limiter as the call leaves it, and the pair it returns
is_allowed(self, identifier, current_time) ==
    LET cleaned == _cleanup_old_requests(self, current_time)
        history == cleaned.request_history[identifier]
    IN  IF SumCounts(Since(history, current_time - MinuteWindow))
               >= self.limits.requests_per_minute THEN
            [self |-> cleaned, is_allowed |-> FALSE, retry_after |-> Retry(60)]
        ELSE IF SumCounts(Since(history, current_time - HourWindow))
               >= self.limits.requests_per_hour THEN
            [self |-> cleaned, is_allowed |-> FALSE, retry_after |-> Retry(3600)]
        ELSE IF SumCounts(Since(history, current_time - BurstWindow))
               >= self.limits.burst_size THEN
            [self |-> cleaned, is_allowed |-> FALSE, retry_after |-> Retry(1)]
        ELSE
            [self |-> [cleaned EXCEPT !.request_history[identifier] =
                          Append(history, [ts |-> current_time, count |-> 1])],
             is_allowed |-> TRUE, retry_after |-> NoRetry]

\* ------------------------------------------------------------------------
\* State
\* ------------------------------------------------------------------------

VARIABLES
    state,            \* the AgentState of the session
    llm_calls,        \* llm.ainvoke calls made by the latest react_supervisor_node
    llm_in,           \* what the engine was ready to answer in that invocation
    last_node,        \* the function that ran last
    route,            \* the latest return value of supervisor_decision_router
    arg_tool_results, \* the list of the state passed to the latest add_tool_result
    issued,           \* result objects created so far: the tag of the newest
    appends,          \* tool executions so far
    passes,           \* supervisor passes so far
    raised,           \* the node whose exception left the latest step, or "None"
    tool_raised,      \* whether what the latest tool node awaited raised
    pc,               \* LoopSpec: the node of the agent graph that runs next
    routed,           \* LoopSpec: non-complete actions routed so far
    response,         \* ParseSpec: the text the engine has written so far
    decision,         \* ParseSpec: _parse_supervisor_decision(response)
    parsed_route,     \* ParseSpec: an action held by a context, and where
                      \* supervisor_decision_router routes that context
    session,          \* HilSpec: the AgentState of every parent thread
    store,            \* HilSpec: the checkpoint that the checkpointer of the
                      \* workflow holds for every thread of the workflow
    inbox,            \* HilSpec: whether the session has sent a message that
                      \* the technical support node has not been run for
    hil_run,          \* HilSpec: what the latest run of the node did
    handled,          \* HilSpec: the parent thread of that run
    routing,          \* RouteSpec: a current_task and a number of messages,
                      \* and where the two routers send a state that has them
    waiting,          \* QueueSpec: the tasks in the queue, in order of arrival
    worker,           \* QueueSpec: "idle", "busy" or "stopped", for every worker
    claims,           \* QueueSpec: the pairs of a worker and the task it holds
    dequeued,         \* QueueSpec: the triage labels of the tasks pulled so far, in order
    processed,        \* QueueSpec: the handler calls made so far, with their outcome
                      \* and, for a call that raised, its worker
    enqueued,         \* QueueSpec: tasks enqueued so far: the id of the newest
    handlers,         \* BusSpec: EventBus.handlers, event type -> list of handlers
    global_handlers,  \* BusSpec: EventBus.global_handlers
    tasks,            \* BusSpec: the tasks that dispatch has created, in order
    registered,       \* BusSpec: the registration calls made so far, counted
    dispatch_log,     \* BusSpec: the latest call of dispatch and its outcome
    limiter,          \* RateSpec: the RateLimiter: its limits, request_history
                      \* and last_cleanup
    clock,            \* RateSpec: time.time(), in seconds
    elapses,          \* RateSpec: steps of the clock so far
    call_times,       \* RateSpec: for every identifier, the times of its calls
                      \* of is_allowed so far
    verdict,          \* RateSpec: the latest call of is_allowed and what it returned
    saved_state,      \* RaceSpec: the AgentState stored for the session
    in_flight,        \* RaceSpec: for every worker, the task of the session it
                      \* runs and the AgentState it loaded for it
    completed,        \* RaceSpec: the tasks whose state has been stored
    started,          \* RaceSpec: tasks taken so far: the id of the newest
    own_loop          \* AdapterSpec: whether an asyncio.run call is under way,
                      \* and the tasks created on its event loop

supVars == <<state, llm_calls, llm_in, last_node, route, arg_tool_results,
             issued, appends, passes, raised, tool_raised>>

loopVars == <<pc, routed>>

parseVars == <<response, decision, parsed_route>>

hilVars == <<session, store, inbox, hil_run, handled, routing>>

queueVars == <<waiting, worker, claims, dequeued, processed, enqueued>>

busVars == <<handlers, global_handlers, tasks, registered, dispatch_log>>

rateVars == <<limiter, clock, elapses, call_times, verdict>>

raceVars == <<saved_state, in_flight, completed, started>>

adapterVars == <<own_loop>>

restVars == <<rateVars, raceVars, adapterVars>>

vars == <<supVars, loopVars, parseVars, hilVars, queueVars, busVars, restVars>>

Workers == 1..NumWorkers

\* the parent threads, and the threads of their workflows
ParentThreads == {<<"t1">>, <<"t2">>}

SubThreads == {sub_graph_thread_id(p) : p \in ParentThreads}

Tools == {"web_search", "faq_handler", "onboarding", "github_toolkit"}

\* ------------------------------------------------------------------------
\* Inputs
\* ------------------------------------------------------------------------

\* a session with a session id, and an object without one
SessionIds == {"s1", ""}

StartIterations == {0, MAX_ITERATIONS - 1, MAX_ITERATIONS}

StartLens == {0, MAX_TOOL_RESULTS - 1, MAX_TOOL_RESULTS}

\* supervisor_decision as an earlier pass, or the caller, left it
StartActions == {Missing, "github_toolkit", "technical_support"}

SeedEntry(i) ==
    [tool      |-> "web_search",
     result    |-> [isdict |-> TRUE, status |-> "success", tag |-> i],
     iteration |-> 0,
     timestamp |-> 0]

States(actions) ==
    { [session_id   |-> sid,
       context      |-> [iteration_count     |-> n,
                         tool_results        |-> [i \in 1..len |-> SeedEntry(i)],
                         supervisor_decision |-> [EmptyDict EXCEPT !.action = a],
                         supervisor_thinking |-> <<>>,
                         last_action         |-> Missing,
                         error               |-> <<>>,
                         completion_reason   |-> <<>>],
       current_task |-> <<>>,
       tools_used   |-> <<>>] :
      sid \in SessionIds, n \in StartIterations, len \in StartLens, a \in actions }

StartStates == States(StartActions)

NoLLM == [raises |-> FALSE, content |-> <<>>]

LLMOutcomes ==
    { [raises |-> TRUE, content |-> <<>>],
      [raises |-> FALSE, content |-> <<"THINK:", " ", "bogus", "\n", "ACT:", " ", "web_search",
                                       "\n", "REASON:", " ", "bogus">>],
      [raises |-> FALSE, content |-> <<"ACT:", " ", "technical_support">>] }

\* what a tool handler does: it returns a dict, or the tool it awaits raises
\* and the exception leaves the handler
HandlerResults ==
    { [raises |-> FALSE, has_task_result |-> TRUE, isdict |-> TRUE, status |-> "success"],
      [raises |-> FALSE, has_task_result |-> TRUE, isdict |-> TRUE, status |-> "error"],
      [raises |-> FALSE, has_task_result |-> TRUE, isdict |-> FALSE, status |-> "success"],
      [raises |-> FALSE, has_task_result |-> FALSE, isdict |-> TRUE, status |-> "none"],
      [raises |-> TRUE, has_task_result |-> FALSE, isdict |-> TRUE, status |-> "none"] }

\* what github_toolkit.execute does
GithubOutcomes ==
    { [raises |-> TRUE, isdict |-> TRUE, status |-> "none"],
      [raises |-> FALSE, isdict |-> TRUE, status |-> "success"],
      [raises |-> FALSE, isdict |-> TRUE, status |-> "error"] }

NoParse == [action |-> Missing, reasoning |-> <<>>, thinking |-> <<>>]

InitSup(states) ==
    /\ state \in states
    /\ llm_calls = 0
    /\ llm_in = NoLLM
    /\ last_node = "None"
    /\ route = "None"
    /\ arg_tool_results = state.context.tool_results
    /\ issued = Len(state.context.tool_results)
    /\ appends = 0
    /\ passes = 0
    /\ raised = "None"
    /\ tool_raised = FALSE

NoRoute == [action |-> Missing, route |-> "None"]

InitParse ==
    /\ response = <<>>
    /\ decision = NoParse
    /\ parsed_route = NoRoute

\* a session that has not been to the workflow, holding the decision that the
\* supervisor left in its context
FreshSession(action) ==
    [messages |-> 0,
     last_reply |-> "None",
     current_task |-> PyNone,
     hil_message |-> PyNone,
     final_response |-> PyNone,
     errors |-> 0,
     context |-> [supervisor_decision |-> [action |-> action]],
     task_result |-> PyNone,
     waiting_for_human_input |-> FALSE]

SessionDecisions == {"complete"}

NoRouting == [current_task |-> PyNone, messages |-> 0, entry |-> "None", resume |-> "None"]

\* what a handler is registered for: a type, or every event
Scopes == EventTypes \cup {"global"}

NoRegistrations == [calls |-> 0, count |-> [sc \in Scopes, h \in HandlerFuncs |-> 0]]

\* the number of times that type occurs in a list of types
RECURSIVE Occurrences(_, _)
Occurrences(types, type) ==
    IF types = <<>> THEN 0
    ELSE (IF Head(types) = type THEN 1 ELSE 0) + Occurrences(Tail(types), type)

\* a call that registers handler_func for the types of a list, or for every
\* event, counted
Count(reg, is_global, types, handler_func) ==
    [calls |-> reg.calls + 1,
     count |-> [sc \in Scopes, h \in HandlerFuncs |->
                  reg.count[sc, h]
                    + (IF h # handler_func THEN 0
                       ELSE IF sc = "global" THEN (IF is_global THEN 1 ELSE 0)
                       ELSE IF is_global THEN 0
                       ELSE Occurrences(types, sc))]]

NoEvent == [id |-> 0, event_type |-> PyNone]

NoDispatch == [n |-> 0, event |-> NoEvent, result |-> PyNone, raises |-> FALSE, created |-> 0]

NoVerdict ==
    [n |-> 0, identifier |-> "None", is_allowed |-> FALSE, retry_after |-> NoRetry]

InitRate ==
    /\ limiter = RateLimiter(DefaultLimits, 0)
    /\ clock = 0
    /\ elapses = 0
    /\ call_times = [ip \in Identifiers |-> <<>>]
    /\ verdict = NoVerdict

\* the two workers that take the tasks of the one session
RaceWorkers == {1, 2}

\* the AgentState of a session that no pass and no tool has touched
BlankState ==
    CHOOSE s \in States({Missing}) :
        /\ s.session_id = "s1"
        /\ s.context.iteration_count = 0
        /\ s.context.tool_results = <<>>

Idle == [status |-> "idle", job |-> 0, tool |-> "None", seen |-> {}, state |-> BlankState]

InitRace ==
    /\ saved_state = BlankState
    /\ in_flight = [w \in RaceWorkers |-> Idle]
    /\ completed = {}
    /\ started = 0

\* no asyncio.run call is under way
NoLoop == [open |-> FALSE, tasks |-> {}]

InitAdapter ==
    own_loop = NoLoop

InitRest ==
    /\ InitRate
    /\ InitRace
    /\ InitAdapter

InitBus ==
    /\ handlers = NoHandlers
    /\ global_handlers = <<>>
    /\ tasks = <<>>
    /\ registered = NoRegistrations
    /\ dispatch_log = NoDispatch

InitQueue ==
    /\ waiting = <<>>
    /\ worker = [w \in Workers |-> "idle"]
    /\ claims = {}
    /\ dequeued = <<>>
    /\ processed = {}
    /\ enqueued = 0

InitHil ==
    /\ InitQueue
    /\ InitBus
    /\ session \in [ParentThreads -> {FreshSession(a) : a \in SessionDecisions}]
    /\ store = [t \in SubThreads |-> NoCheckpoint]
    /\ inbox = [p \in ParentThreads |-> TRUE]
    /\ hil_run = NoRun
    /\ handled = <<>>
    /\ routing = NoRouting

\* ------------------------------------------------------------------------
\* Spec: the node functions, called on the session in any order
\* ------------------------------------------------------------------------

Init ==
    /\ InitSup(StartStates)
    /\ pc = "caller"
    /\ routed = 0
    /\ InitParse
    /\ InitHil
    /\ InitRest

SupervisorStep(llm) ==
    LET r == react_supervisor_node(state, llm) IN
    /\ state' = IF r.raises THEN state ELSE Merge(state, r.update)
    /\ raised' = IF r.raises THEN "react_supervisor" ELSE "None"
    /\ llm_calls' = r.llm_calls
    /\ llm_in' = llm
    /\ last_node' = "react_supervisor"
    /\ passes' = passes + 1
    /\ UNCHANGED <<route, arg_tool_results, issued, appends, tool_raised>>

ToolNode(tool, handler_result, github) ==
    CASE tool = "web_search"     -> web_search_tool_node(state, handler_result, issued + 1)
      [] tool = "faq_handler"    -> faq_handler_tool_node(state, handler_result, issued + 1)
      [] tool = "onboarding"     -> onboarding_tool_node(state, handler_result, issued + 1)
      [] tool = "github_toolkit" -> github_toolkit_tool_node(state, github, issued + 1)

ToolStep(tool) ==
    \E handler_result \in HandlerResults, github \in GithubOutcomes :
        LET r == ToolNode(tool, handler_result, github) IN
        /\ state' = IF r.raises THEN state ELSE Merge(state, r.result.update)
        /\ raised' = IF r.raises THEN tool ELSE "None"
        /\ tool_raised' = IF tool = "github_toolkit" THEN github.raises
                          ELSE handler_result.raises
        /\ arg_tool_results' = IF r.raises THEN arg_tool_results
                               ELSE r.result.arg_tool_results
        /\ issued' = IF r.raises THEN issued ELSE issued + 1
        /\ appends' = appends + 1
        /\ last_node' = tool
        /\ UNCHANGED <<llm_calls, llm_in, route, passes>>

RouterStep ==
    /\ route' = supervisor_decision_router(state)
    /\ last_node' = "router"
    /\ UNCHANGED <<state, llm_calls, llm_in, arg_tool_results, issued, appends, passes,
                   raised, tool_raised>>

SupervisorPass ==
    /\ passes < MaxPasses
    /\ \E llm \in LLMOutcomes : SupervisorStep(llm)
    /\ UNCHANGED <<loopVars, parseVars, hilVars, queueVars, busVars, restVars>>

ToolExecution ==
    /\ appends < MaxAppends
    /\ \E tool \in Tools : ToolStep(tool)
    /\ UNCHANGED <<loopVars, parseVars, hilVars, queueVars, busVars, restVars>>

Next == SupervisorPass \/ ToolExecution

Spec == Init /\ [][Next]_vars

\* ------------------------------------------------------------------------
\* LoopSpec: the Think -> Act -> Observe loop of the agent graph.  The
\* supervisor is followed by the router, the router by the tool it names or
\* by the end of the loop, every tool by the supervisor.  An exception that
\* leaves a node aborts the run of the graph.
\* ------------------------------------------------------------------------

\* the loop is entered at the supervisor, or picked up at the router with the
\* decision that the context holds
LoopEntries == {"react_supervisor", "router"}

LoopInit ==
    /\ InitSup(States(StartActions \cup VALID_ACTIONS))
    /\ pc \in LoopEntries
    /\ routed = 0
    /\ InitParse
    /\ InitHil
    /\ InitRest

LoopSupervisor ==
    /\ pc = "react_supervisor"
    /\ passes < MaxPasses
    /\ \E llm \in LLMOutcomes : SupervisorStep(llm)
    /\ pc' = IF raised' = "None" THEN "router" ELSE "aborted"
    /\ UNCHANGED <<routed, parseVars, hilVars, queueVars, busVars, restVars>>

LoopRoute ==
    /\ pc = "router"
    /\ RouterStep
    /\ pc' = IF route' = "complete" THEN "END" ELSE route'
    /\ routed' = IF route' = "complete" THEN routed ELSE routed + 1
    /\ UNCHANGED <<parseVars, hilVars, queueVars, busVars, restVars>>

LoopTool ==
    /\ pc \in Tools
    /\ appends < MaxAppends
    /\ ToolStep(pc)
    /\ pc' = IF raised' = "None" THEN "react_supervisor" ELSE "aborted"
    /\ UNCHANGED <<routed, parseVars, hilVars, queueVars, busVars, restVars>>

LoopNext == LoopSupervisor \/ LoopRoute \/ LoopTool

LoopSpec == LoopInit /\ [][LoopNext]_vars /\ WF_vars(LoopNext)

\* ------------------------------------------------------------------------
\* ParseSpec: _parse_supervisor_decision and supervisor_decision_router on
\* every response of at most MaxLen tokens
\* ------------------------------------------------------------------------

Alphabet ==
    {"THINK:", "ACT:", "REASON:", " ", "\n",
     "web_search", "faq_handler", "onboarding", "github_toolkit",
     "technical_support", "complete", "Web_Search", "bogus"}

RouterIterations == StartIterations \cup {MAX_ITERATIONS + 1}

\* a state whose context holds the given decision and iteration count
RouterInput(action, n) ==
    [session_id   |-> "s1",
     context      |-> [iteration_count     |-> n,
                       tool_results        |-> <<>>,
                       supervisor_decision |-> [EmptyDict EXCEPT !.action = action],
                       supervisor_thinking |-> <<>>,
                       last_action         |-> Missing,
                       error               |-> <<>>,
                       completion_reason   |-> <<>>],
     current_task |-> <<>>,
     tools_used   |-> <<>>]

ParseInit ==
    /\ InitSup({RouterInput(Missing, 0)})
    /\ pc = "caller"
    /\ routed = 0
    /\ InitParse
    /\ InitHil
    /\ InitRest

Emit ==
    /\ decision = NoParse
    /\ Len(response) < MaxLen
    /\ \E t \in Alphabet : response' = Append(response, t)
    /\ UNCHANGED <<decision, parsed_route, supVars, loopVars, hilVars, queueVars, busVars, restVars>>

ParseResponse ==
    /\ decision = NoParse
    /\ decision' = parse_supervisor_decision(response)
    /\ UNCHANGED <<response, parsed_route, supVars, loopVars, hilVars, queueVars, busVars, restVars>>

\* the router on the parsed decision, on a context without a decision, and on
\* a context whose decision holds the last word of the response as it is
RouteParsed ==
    /\ decision # NoParse
    /\ parsed_route = NoRoute
    /\ \E a \in {decision.action, Missing}
                  \cup {response[i] : i \in {Len(response)} \ {0}},
          n \in RouterIterations :
          parsed_route' = [action |-> a,
                           route  |-> supervisor_decision_router(RouterInput(a, n))]
    /\ UNCHANGED <<response, decision, supVars, loopVars, hilVars, queueVars, busVars, restVars>>

ParseNext == Emit \/ ParseResponse \/ RouteParsed

ParseSpec == ParseInit /\ [][ParseNext]_vars

\* ------------------------------------------------------------------------
\* HilSpec: the sessions of ParentThreads send messages, and the technical
\* support node is run on a session for what it has sent
\* ------------------------------------------------------------------------

\* what the user answers to a prompt
Replies == {"yes", "no"}

ProposeOutcomes ==
    { [raises |-> TRUE,  isdict |-> TRUE,  action |-> Missing],
      [raises |-> FALSE, isdict |-> FALSE, action |-> Missing],
      [raises |-> FALSE, isdict |-> TRUE,  action |-> "github_toolkit"],
      [raises |-> FALSE, isdict |-> TRUE,  action |-> "web_search"] }

ExecutorOutcomes == { [raises |-> TRUE], [raises |-> FALSE] }

PresentOutcomes ==
    { [raises |-> TRUE,  content |-> ""],
      [raises |-> FALSE, content |-> "summary"],
      [raises |-> FALSE, content |-> ""] }

\* the checkpointer answers and the workflow runs, or the checkpointer fails
Outcomes ==
    [propose : ProposeOutcomes, executor : ExecutorOutcomes,
     present : PresentOutcomes, get_state_raises : {FALSE}]
    \cup
    [propose : {[raises |-> TRUE, isdict |-> TRUE, action |-> Missing]},
     executor : {[raises |-> TRUE]},
     present : {[raises |-> TRUE, content |-> ""]}, get_state_raises : {TRUE}]

HilInit ==
    /\ InitSup({RouterInput(Missing, 0)})
    /\ pc = "caller"
    /\ routed = 0
    /\ InitParse
    /\ InitHil
    /\ InitRest

RECURSIVE TotalMessages(_)
TotalMessages(parents) ==
    IF parents = {} THEN 0
    ELSE LET p == CHOOSE q \in parents : TRUE
         IN  session[p].messages + TotalMessages(parents \ {p})

\* a message of the user reaches the session
UserMessage(p) ==
    /\ TotalMessages(ParentThreads) < MaxTurns
    /\ \E reply \in Replies :
          session' = [session EXCEPT ![p].messages = @ + 1, ![p].last_reply = reply]
    /\ inbox' = [inbox EXCEPT ![p] = TRUE]
    /\ UNCHANGED <<store, hil_run, handled, routing, supVars, loopVars, parseVars, queueVars, busVars, restVars>>

\* the agent graph runs the technical support node on the session, with its
\* thread_id in config or without one
Handle(p) ==
    /\ inbox[p]
    /\ \E thread_id \in {p, NoThread}, out \in Outcomes :
          LET r == handle_technical_support_node(session[p], thread_id, store, out) IN
          /\ session' = [session EXCEPT ![p] = MergeSession(@, r.update)]
          /\ store' = r.checkpoints
          /\ hil_run' = r.run
    /\ handled' = p
    /\ inbox' = [inbox EXCEPT ![p] = FALSE]
    /\ UNCHANGED <<routing, supVars, loopVars, parseVars, queueVars, busVars, restVars>>

HilNext ==
    \/ \E p \in ParentThreads : UserMessage(p)
    \/ \E p \in ParentThreads : Handle(p)

HilSpec == HilInit /\ [][HilNext]_vars

\* the conversation goes on: messages that have arrived are handled, and the
\* user keeps answering
HilFairSpec == HilInit /\ [][HilNext]_vars /\ WF_vars(HilNext)

\* ------------------------------------------------------------------------
\* RouteSpec: smart_entry_router and resume_router on every current_task and
\* every number of messages up to MaxTurns
\* ------------------------------------------------------------------------

TaskValues ==
    {PyNone, "", "None", "awaiting_context", "awaiting_action_approval",
     "awaiting_option_choice", "action_executed", "technical_support_complete",
     "technical_support_error", "supervisor_decided_complete"}

\* a workflow state with this task and this many messages
RoutedState(r) ==
    [FreshPayload(FreshSession("complete")) EXCEPT !.current_task = r.current_task,
                                                !.messages = r.messages]

RouteInit ==
    /\ InitSup({RouterInput(Missing, 0)})
    /\ pc = "caller"
    /\ routed = 0
    /\ InitParse
    /\ session \in [ParentThreads -> {FreshSession(a) : a \in SessionDecisions}]
    /\ store = [t \in SubThreads |-> NoCheckpoint]
    /\ inbox = [p \in ParentThreads |-> TRUE]
    /\ hil_run = NoRun
    /\ handled = <<>>
    /\ InitQueue
    /\ InitBus
    /\ InitRest
    /\ routing \in [current_task : TaskValues, messages : 0..MaxTurns,
                    entry : {"None"}, resume : {"None"}]

EntryRoute ==
    /\ routing.entry = "None"
    /\ routing' = [routing EXCEPT !.entry = smart_entry_router(RoutedState(routing))]
    /\ UNCHANGED <<session, store, inbox, hil_run, handled, supVars, loopVars, parseVars, queueVars, busVars, restVars>>

ResumeRoute ==
    /\ routing.resume = "None"
    /\ routing' = [routing EXCEPT
                      !.resume = ResumeEdges(resume_router(RoutedState(routing)))]
    /\ UNCHANGED <<session, store, inbox, hil_run, handled, supVars, loopVars, parseVars, queueVars, busVars, restVars>>

RouteNext == EntryRoute \/ ResumeRoute

RouteSpec == RouteInit /\ [][RouteNext]_vars

\* ------------------------------------------------------------------------
\* QueueSpec: messages are triaged and enqueued, and the workers of the pool
\* pull tasks and run their handlers
\* ------------------------------------------------------------------------

\* triage_result.get("priority"): the priorities that the triage of
\* classification_router.py asks its engine for and falls back to
TriageLabels == {"high", "medium", "low"}

QueueInit ==
    /\ InitSup({RouterInput(Missing, 0)})
    /\ pc = "caller"
    /\ routed = 0
    /\ InitParse
    /\ InitHil
    /\ InitRest

\* _handle_devrel_message enqueues the message with the priority of its
\* triage
Enqueue ==
    /\ enqueued < MaxTasks
    /\ \E label \in TriageLabels :
          waiting' = Append(waiting, [id       |-> enqueued + 1,
                                      label    |-> label,
                                      priority |-> PriorityOf(label)])
    /\ enqueued' = enqueued + 1
    /\ UNCHANGED <<worker, claims, dequeued, processed, supVars, loopVars, parseVars, hilVars, busVars, restVars>>

\* an idle worker takes the next task out of the queue
Pull(w) ==
    /\ worker[w] = "idle"
    /\ waiting # <<>>
    /\ LET i == NextIndex(waiting) IN
          /\ claims' = claims \cup {[worker |-> w, task |-> waiting[i]]}
          /\ waiting' = Remove(waiting, i)
          /\ dequeued' = Append(dequeued, waiting[i].label)
    /\ worker' = [worker EXCEPT ![w] = "busy"]
    /\ UNCHANGED <<processed, enqueued, supVars, loopVars, parseVars, hilVars, busVars, restVars>>

\* the handler of the task that a worker holds returns or raises
RunHandler(w) ==
    /\ worker[w] = "busy"
    /\ \E c \in claims, raises \in BOOLEAN :
          /\ c.worker = w
          /\ claims' = claims \ {c}
          /\ processed' = processed \cup {[id     |-> c.task.id,
                                          raised |-> raises,
                                          worker |-> IF raises THEN w ELSE 0]}
          /\ worker' = [worker EXCEPT ![w] = AfterHandler(@, raises)]
    /\ UNCHANGED <<waiting, dequeued, enqueued, supVars, loopVars, parseVars, hilVars, busVars, restVars>>

WorkerStep == \E w \in Workers : Pull(w) \/ RunHandler(w)

QueueNext == Enqueue \/ WorkerStep

QueueSpec == QueueInit /\ [][QueueNext]_vars /\ WF_vars(WorkerStep)

\* ------------------------------------------------------------------------
\* BusSpec: handlers are registered on an EventBus, events are dispatched and
\* the event loop runs the tasks that dispatch created
\* ------------------------------------------------------------------------

\* the event_type argument of register_handler: one type or a list of types
TypeArgs ==
    {[is_list |-> FALSE, types |-> <<t>>] : t \in EventTypes}
      \cup {[is_list |-> TRUE, types |-> l] :
               l \in {<<>>, <<"issue.created", "faq.requested">>}}

\* what a handler does once the event loop runs it: it returns, it raises,
\* or it awaits something that never comes
TaskOutcomes == {"done", "raised", "suspended"}

BusInit ==
    /\ InitSup({RouterInput(Missing, 0)})
    /\ pc = "caller"
    /\ routed = 0
    /\ InitParse
    /\ InitHil
    /\ InitRest

RegisterHandler ==
    /\ registered.calls < MaxRegistrations
    /\ \E event_type \in TypeArgs, handler_func \in HandlerFuncs :
          /\ handlers' = register_handler(handlers, event_type, handler_func)
          /\ registered' = Count(registered, FALSE, event_type.types, handler_func)
    /\ UNCHANGED <<global_handlers, tasks, dispatch_log,
                   supVars, loopVars, parseVars, hilVars, queueVars, restVars>>

RegisterGlobalHandler ==
    /\ registered.calls < MaxRegistrations
    /\ \E handler_func \in HandlerFuncs :
          /\ global_handlers' = register_global_handler(global_handlers, handler_func)
          /\ registered' = Count(registered, TRUE, <<>>, handler_func)
    /\ UNCHANGED <<handlers, tasks, dispatch_log,
                   supVars, loopVars, parseVars, hilVars, queueVars, restVars>>

\* a caller awaits event_bus.dispatch(event)
Dispatch ==
    /\ dispatch_log.n < MaxDispatches
    /\ \E t \in EventTypes :
          LET event == [id |-> dispatch_log.n + 1, event_type |-> t]
              d     == dispatch(handlers, global_handlers, event)
          IN  /\ tasks' = tasks \o d.created
              /\ dispatch_log' = [n       |-> dispatch_log.n + 1,
                                  event   |-> event,
                                  result  |-> d.result,
                                  raises  |-> d.raises,
                                  created |-> Len(d.created)]
    /\ UNCHANGED <<handlers, global_handlers, registered,
                   supVars, loopVars, parseVars, hilVars, queueVars, restVars>>

\* the event loop runs the tasks in the order in which create_task
\* scheduled them: the first task that has not run yet takes its first step
RunTask ==
    /\ \E i \in 1..Len(tasks), outcome \in TaskOutcomes :
          /\ tasks[i].status = "pending"
          /\ \A j \in 1..(i - 1) : tasks[j].status # "pending"
          /\ tasks' = [tasks EXCEPT ![i].status = outcome]
    /\ UNCHANGED <<handlers, global_handlers, registered, dispatch_log,
                   supVars, loopVars, parseVars, hilVars, queueVars, restVars>>

BusNext == RegisterHandler \/ RegisterGlobalHandler \/ Dispatch \/ RunTask

BusSpec == BusInit /\ [][BusNext]_vars /\ WF_vars(RunTask)

\* ------------------------------------------------------------------------
\* AdapterSpec: the bus with callers that await dispatch on the event loop of
\* the application, and callers that run it on an event loop of its own
\* ------------------------------------------------------------------------

AdapterInit == BusInit

\* asyncio.run(event_bus.dispatch(event)): a new event loop runs dispatch as
\* its main task, and the tasks that dispatch creates are tasks of that loop
RunDispatch ==
    /\ dispatch_log.n < MaxDispatches
    /\ ~own_loop.open
    /\ \E t \in EventTypes :
          LET event == [id |-> dispatch_log.n + 1, event_type |-> t]
              d     == dispatch(handlers, global_handlers, event)
          IN  /\ tasks' = tasks \o d.created
              /\ dispatch_log' = [n       |-> dispatch_log.n + 1,
                                  event   |-> event,
                                  result  |-> d.result,
                                  raises  |-> d.raises,
                                  created |-> Len(d.created)]
              /\ own_loop' = [open  |-> TRUE,
                              tasks |-> (Len(tasks) + 1)..(Len(tasks) + Len(d.created))]
    /\ UNCHANGED <<handlers, global_handlers, registered,
                   supVars, loopVars, parseVars, hilVars, queueVars, rateVars, raceVars>>

\* what a task awaits is there: a task of the event loop of the application
\* goes on, and returns or raises
ResumeTask ==
    /\ \E i \in 1..Len(tasks), outcome \in {"done", "raised"} :
          /\ tasks[i].status = "suspended"
          /\ i \notin own_loop.tasks
          /\ tasks' = [tasks EXCEPT ![i].status = outcome]
    /\ UNCHANGED <<handlers, global_handlers, registered, dispatch_log,
                   supVars, loopVars, parseVars, hilVars, queueVars, restVars>>

\* asyncio.run returns: the main task is done, the tasks it created have had
\* their first step, and those that are not done are cancelled before the
\* loop is closed
CloseLoop ==
    /\ own_loop.open
    /\ \A i \in own_loop.tasks : tasks[i].status # "pending"
    /\ tasks' = [i \in 1..Len(tasks) |->
                    IF i \in own_loop.tasks /\ tasks[i].status = "suspended"
                    THEN [tasks[i] EXCEPT !.status = "cancelled"]
                    ELSE tasks[i]]
    /\ own_loop' = NoLoop
    /\ UNCHANGED <<handlers, global_handlers, registered, dispatch_log,
                   supVars, loopVars, parseVars, hilVars, queueVars, rateVars, raceVars>>

AdapterNext ==
    \/ RegisterHandler
    \/ RegisterGlobalHandler
    \/ Dispatch
    \/ RunDispatch
    \/ RunTask
    \/ ResumeTask
    \/ CloseLoop

AdapterSpec ==
    AdapterInit /\ [][AdapterNext]_vars
        /\ WF_vars(RunTask) /\ WF_vars(ResumeTask) /\ WF_vars(CloseLoop)

\* ------------------------------------------------------------------------
\* RateSpec: one RateLimiter, called for two identifiers as time goes by
\* ------------------------------------------------------------------------

\* the limits that a limiter is constructed with
Limits ==
    { [requests_per_minute |-> m, requests_per_hour |-> h, burst_size |-> b] :
        m \in 1..MaxLimit, h \in 1..(MaxLimit + 1), b \in 1..MaxLimit }

\* the time between two steps: within the same second, within the minute,
\* up to the minute, and up to the hour
TimeSteps == {1, MinuteWindow - 1, HourWindow - MinuteWindow}

RateInit ==
    /\ InitSup({RouterInput(Missing, 0)})
    /\ pc = "caller"
    /\ routed = 0
    /\ InitParse
    /\ InitHil
    /\ InitRace
    /\ InitAdapter
    /\ \E limits \in Limits : limiter = RateLimiter(limits, 0)
    /\ clock = 0
    /\ elapses = 0
    /\ call_times = [ip \in Identifiers |-> <<>>]
    /\ verdict = NoVerdict

Elapse ==
    /\ elapses < MaxElapses
    /\ \E d \in TimeSteps : clock' = clock + d
    /\ elapses' = elapses + 1
    /\ UNCHANGED <<limiter, call_times, verdict,
                   supVars, loopVars, parseVars, hilVars, queueVars, busVars,
                   raceVars, adapterVars>>

\* the middleware asks the limiter about a request of the identifier
Request(identifier) ==
    /\ verdict.n < MaxCalls
    /\ LET r == is_allowed(limiter, identifier, clock) IN
          /\ limiter' = r.self
          /\ verdict' = [n           |-> verdict.n + 1,
                         identifier  |-> identifier,
                         is_allowed  |-> r.is_allowed,
                         retry_after |-> r.retry_after]
    /\ call_times' = [call_times EXCEPT ![identifier] = Append(@, clock)]
    /\ UNCHANGED <<clock, elapses,
                   supVars, loopVars, parseVars, hilVars, queueVars, busVars,
                   raceVars, adapterVars>>

RateNext == Elapse \/ \E identifier \in Identifiers : Request(identifier)

RateSpec == RateInit /\ [][RateNext]_vars

\* ------------------------------------------------------------------------
\* RaceSpec: two workers that take tasks of the same session
\* ------------------------------------------------------------------------

\* a handler starts from the state stored for the session
LoadState(stored) == stored

\* a store that keeps the entries that were stored since the state was loaded
SaveState_merges(stored, local) ==
    LET held  == {stored.context.tool_results[i].result.tag :
                     i \in 1..Len(stored.context.tool_results)}
        fresh == SelectSeq(local.context.tool_results,
                           LAMBDA e : e.result.tag \notin held)
    IN  [local EXCEPT !.context.tool_results = stored.context.tool_results \o fresh]

\* a handler stores the state it ends with in place of the stored one
SaveState(stored, local) == local

RaceTools == {"web_search", "faq_handler"}

RaceInit ==
    /\ InitSup({RouterInput(Missing, 0)})
    /\ pc = "caller"
    /\ routed = 0
    /\ InitParse
    /\ InitHil
    /\ InitRest

\* an idle worker takes the next task of the session, whatever the other
\* worker is doing, and loads the state of the session
TakeTask(w) ==
    /\ started < MaxJobs
    /\ in_flight[w].status = "idle"
    /\ in_flight' = [in_flight EXCEPT ![w] =
                        [status |-> "loaded", job |-> started + 1, tool |-> "None",
                         seen |-> completed, state |-> LoadState(saved_state)]]
    /\ started' = started + 1
    /\ UNCHANGED <<saved_state, completed,
                   supVars, loopVars, parseVars, hilVars, queueVars, busVars,
                   rateVars, adapterVars>>

\* the task of the worker runs react_supervisor_node on the state it loaded
Think(w) ==
    /\ in_flight[w].status = "loaded"
    /\ \E llm \in LLMOutcomes :
          LET r == react_supervisor_node(in_flight[w].state, llm) IN
          in_flight' = [in_flight EXCEPT
                          ![w].status = "ran",
                          ![w].state = Merge(in_flight[w].state, r.update)]
    /\ UNCHANGED <<saved_state, completed, started,
                   supVars, loopVars, parseVars, hilVars, queueVars, busVars,
                   rateVars, adapterVars>>

\* the task of the worker runs a tool and add_tool_result on the state it loaded
Act(w) ==
    /\ in_flight[w].status = "loaded"
    /\ \E tool \in RaceTools :
          LET result == [isdict |-> TRUE, status |-> "success", tag |-> in_flight[w].job]
              r      == add_tool_result(in_flight[w].state, tool, result)
          IN  in_flight' = [in_flight EXCEPT
                              ![w].status = "ran",
                              ![w].tool = tool,
                              ![w].state = Merge(in_flight[w].state, r.update)]
    /\ UNCHANGED <<saved_state, completed, started,
                   supVars, loopVars, parseVars, hilVars, queueVars, busVars,
                   rateVars, adapterVars>>

\* the task of the worker is over: its state is stored for the session
Store(w) ==
    /\ in_flight[w].status = "ran"
    /\ saved_state' = SaveState(saved_state, in_flight[w].state)
    /\ completed' = completed \cup {[job |-> in_flight[w].job, tool |-> in_flight[w].tool]}
    /\ in_flight' = [in_flight EXCEPT ![w] = Idle]
    /\ UNCHANGED <<started,
                   supVars, loopVars, parseVars, hilVars, queueVars, busVars,
                   rateVars, adapterVars>>

RaceNext == \E w \in RaceWorkers : TakeTask(w) \/ Think(w) \/ Act(w) \/ Store(w)

RaceSpec == RaceInit /\ [][RaceNext]_vars

\* ------------------------------------------------------------------------
\* Properties
\* ------------------------------------------------------------------------

\* a step of react_supervisor_node
IsSupervisorStep == passes' = passes + 1

\* C1: whenever react_supervisor_node is invoked with iteration_count >=
\* MAX_ITERATIONS, the decision it returns has action complete and llm.ainvoke
\* is not called during that invocation.
C1_CapForcesComplete ==
    [][(IsSupervisorStep /\ state.context.iteration_count >= MAX_ITERATIONS)
        => /\ state'.context.supervisor_decision.action = "complete"
           /\ llm_calls' = 0]_vars

\* a valid session at the cap, for which the supervisor has just forced
\* completion in place of a decision that named a tool
C1_Witness ==
    /\ last_node = "react_supervisor"
    /\ validate_state(state)
    /\ state.context.iteration_count >= MAX_ITERATIONS
    /\ state.context.completion_reason = <<"Maximum iterations reached">>
    /\ state.context.supervisor_decision.action = "complete"

C3_IterationCountCapped ==
    state.context.iteration_count <= MAX_ITERATIONS

\* a session at the cap that went through a forced completion and a tool
C3_Witness ==
    /\ state.context.iteration_count = MAX_ITERATIONS
    /\ state.context.completion_reason # <<>>
    /\ passes >= 2
    /\ appends >= 1

\* the action registry as the prompt and the specification list it
Registry ==
    {"technical_support", "web_search", "faq_handler", "onboarding",
     "github_toolkit", "complete"}

\* token i of r is the first token of its line that is not a blank
IsLineStart(r, i) ==
    \E j \in 0..(i - 1) :
        /\ j = 0 \/ r[j] = "\n"
        /\ \A k \in (j + 1)..(i - 1) : r[k] = " "

\* a line of r is recognised as an ACT section at token i
ActAt(r, i) == r[i] = "ACT:" /\ IsLineStart(r, i)

HasActLine(r) == \E i \in 1..Len(r) : ActAt(r, i)

LastAct(r) == CHOOSE i \in 1..Len(r) :
                  ActAt(r, i) /\ \A k \in (i + 1)..Len(r) : ~ActAt(r, k)

\* the tokens that the ACT line starting at token i holds besides "ACT:" and
\* blanks
RECURSIVE ActWords(_, _)
ActWords(r, i) ==
    IF i > Len(r) \/ r[i] = "\n" THEN <<>>
    ELSE IF r[i] \in {"ACT:", " "} THEN ActWords(r, i + 1)
    ELSE <<r[i]>> \o ActWords(r, i + 1)

\* the ACT line starting at token i names one action of the registry
NamesRegistryAction(r, i) ==
    /\ Len(ActWords(r, i)) = 1
    /\ lowerToken(ActWords(r, i)[1]) \in Registry

\* C4: for every response, _parse_supervisor_decision returns an action of the
\* closed registry, an ACT value outside the registry is replaced by complete,
\* and supervisor_decision_router returns no value outside the registry.
C4_ActionInRegistry ==
    /\ decision # NoParse =>
          /\ decision.action \in Registry
          /\ (HasActLine(response) /\ ~NamesRegistryAction(response, LastAct(response)))
                => decision.action = "complete"
    /\ parsed_route # NoRoute => parsed_route.route \in Registry

\* a response whose ACT value is no registered action was parsed to complete,
\* and the router was asked about a decision holding that unregistered value
C4_Witness ==
    /\ response = <<"ACT:", " ", "bogus">>
    /\ decision.action = "complete"
    /\ parsed_route = [action |-> "bogus", route |-> "complete"]

\* C5: a response with no line recognised as an ACT section, an empty or
\* blank response included, is parsed to action complete.
C5_NoActMeansComplete ==
    (decision # NoParse /\ ~HasActLine(response)) => decision.action = "complete"

\* a response with a THINK and a REASON section and no ACT section was parsed
C5_Witness ==
    /\ response = <<"THINK:", "web_search", "\n", "REASON:">>
    /\ decision # NoParse
    /\ decision.thinking = <<"web_search">>

\* C6: each of the six action names of the registry, written as the ACT
\* value, is parsed to that same action; ACT technical_support yields
\* technical_support and is not replaced by complete.
C6_RegistryNamesParsed ==
    \A a \in Registry :
        (decision # NoParse /\ response = <<"ACT:", " ", a>>) => decision.action = a

\* C7: after every add_tool_result call the tool_results list of the returned
\* context has at most 20 entries.
C7_ToolResultsCapped ==
    Len(state.context.tool_results) <= MAX_TOOL_RESULTS

\* two appends to a full list: the list is full and its two oldest entries
\* are gone
C7_Witness ==
    /\ appends = 2
    /\ validate_state(state)
    /\ Len(state.context.tool_results) = MAX_TOOL_RESULTS
    /\ state.context.tool_results[1].result.tag = 3

\* C8: when an append makes tool_results longer than 20 entries, the entries
\* kept are the 20 most recent ones in their original order, the new entry
\* last; only the oldest are dropped.  (Result objects are tagged 1, 2, ... in
\* the order in which they were appended.)
C8_KeepsMostRecent ==
    (validate_state(state) /\ issued > MAX_TOOL_RESULTS) =>
        /\ Len(state.context.tool_results) = MAX_TOOL_RESULTS
        /\ \A i \in 1..MAX_TOOL_RESULTS :
              state.context.tool_results[i].result.tag = issued - MAX_TOOL_RESULTS + i

\* an append to a full list: the newest entry is last, the oldest is gone
C8_Witness ==
    /\ validate_state(state)
    /\ issued = MAX_TOOL_RESULTS + 1
    /\ last_node = "github_toolkit"
    /\ state.context.tool_results[MAX_TOOL_RESULTS].tool = "github_toolkit"
    /\ state.context.tool_results[MAX_TOOL_RESULTS].result.status = "error"
    /\ state.context.tool_results[1].result.tag = 2

\* C9: every supervisor pass below the cap increases iteration_count by
\* exactly 1, and no other step changes iteration_count.
C9_IncrementPerPass ==
    [][/\ (IsSupervisorStep /\ validate_state(state)
             /\ state.context.iteration_count < MAX_ITERATIONS)
          => state'.context.iteration_count = state.context.iteration_count + 1
       /\ ~IsSupervisorStep
          => state'.context.iteration_count = state.context.iteration_count]_vars

\* C10: react_supervisor_node, invoked with a valid state and iteration_count
\* below MAX_ITERATIONS, asks the reasoning engine exactly once and returns the
\* decision parsed from the engine's response.
C10_AsksEngineOnce ==
    [][(IsSupervisorStep /\ validate_state(state)
          /\ state.context.iteration_count < MAX_ITERATIONS
          /\ ~llm_in'.raises)
        => /\ llm_calls' = 1
           /\ state'.context.supervisor_decision = parse_supervisor_decision(llm_in'.content)]_vars

\* a step of a tool node
IsToolStep == appends' = appends + 1

\* C11: react_supervisor_node never raises to its caller: on an invalid
\* state, on a failure of the engine and on a response without an action line
\* it returns a decision with action complete, and the error is recorded in
\* the context for the invalid state and for the failure.
C11_SupervisorNeverRaises ==
    [][IsSupervisorStep
        => /\ raised' = "None"
           /\ last_node' = "react_supervisor"
           /\ ~validate_state(state)
                => /\ state'.context.supervisor_decision.action = "complete"
                   /\ state'.context.error = <<"Invalid state">>
           /\ (validate_state(state) /\ llm_calls' = 0
                  /\ state.context.iteration_count < MAX_ITERATIONS)
                => /\ state'.context.supervisor_decision.action = "complete"
                   /\ state'.context.error # <<>>
           /\ (llm_calls' = 1 /\ llm_in'.raises)
                => /\ state'.context.supervisor_decision.action = "complete"
                   /\ state'.context.error # <<>>
           /\ (llm_calls' = 1 /\ ~llm_in'.raises /\ ~HasActLine(llm_in'.content))
                => state'.context.supervisor_decision.action = "complete"]_vars

\* a valid session below the cap whose pass failed inside the node: the node
\* returned, the decision is complete and the error is in the context
C11_Witness ==
    /\ last_node = "react_supervisor"
    /\ raised = "None"
    /\ validate_state(state)
    /\ state.context.iteration_count < MAX_ITERATIONS
    /\ state.context.supervisor_decision.action = "complete"
    /\ state.context.error # <<>>
    /\ state.current_task = <<"supervisor_decided", "complete">>

\* C12: when what a tool node awaits raises, whichever of web_search,
\* faq_handler, onboarding and github_toolkit it is, the node returns, the
\* newest entry of tool_results is the failure of that tool with status error,
\* and the loop goes on.
C12_ToolFailureCaptured ==
    [][(IsToolStep /\ tool_raised' /\ validate_state(state))
        => /\ raised' = "None"
           /\ Len(state'.context.tool_results) > 0
           /\ LET newest == state'.context.tool_results[Len(state'.context.tool_results)]
              IN  /\ newest.tool = last_node'
                  /\ newest.result.status = "error"]_vars

\* C13: resume_router sends awaiting_context to propose_action,
\* awaiting_action_approval to execute_action, awaiting_option_choice to
\* propose_action, and every other current_task, None included, to END.
C13_ResumeRouting ==
    routing.resume # "None"
        => routing.resume =
              CASE routing.current_task = "awaiting_context"         -> "propose_action"
                [] routing.current_task = "awaiting_action_approval" -> "execute_action"
                [] routing.current_task = "awaiting_option_choice"   -> "propose_action"
                [] OTHER                                             -> "END"

\* a reply to the options went back to propose_action
C13_Witness ==
    /\ routing.current_task = "awaiting_option_choice"
    /\ routing.resume = "propose_action"

\* a run of the technical support node on the session of parent thread p
IsHandle(p) == inbox[p] /\ ~inbox'[p]

\* such a run that went into the workflow
Entered(p) == IsHandle(p) /\ hil_run'.trace # <<>>

\* C14: a session whose current_task is None and whose workflow has no
\* checkpoint goes to clarify_context, the workflow pauses, the clarifying
\* question is the prompt handed back, and the current_task of the session
\* is awaiting_context afterwards.
C14_FreshSessionClarifies ==
    [][\A p \in ParentThreads :
          (Entered(p) /\ session[p].current_task = PyNone
                      /\ store[sub_graph_thread_id(p)] = NoCheckpoint)
          => /\ hil_run'.trace = <<"smart_entry", "clarify_context">>
             /\ store'[sub_graph_thread_id(p)].next = <<"pause_here">>
             /\ session'[p].hil_message = ClarifyQuestion
             /\ session'[p].final_response = ClarifyQuestion
             /\ session'[p].current_task = "awaiting_context"]_vars

\* C15: resuming a workflow paused with current_task awaiting_action_approval
\* and a recorded proposal runs execute_action and then present_options
\* without a pause between them, and leaves the workflow paused with
\* current_task awaiting_option_choice.
C15_ApprovalResumesToPresent ==
    [][\A p \in ParentThreads :
          LET sub == sub_graph_thread_id(p) IN
          (/\ Entered(p)
           /\ store[sub] # NoCheckpoint
           /\ store[sub].next = <<"pause_here">>
           /\ store[sub].values.current_task = "awaiting_action_approval"
           /\ store[sub].values.context.supervisor_decision.action # Missing)
          => /\ hil_run'.trace = <<"smart_entry", "wait_for_user",
                                   "execute_action", "present_options">>
             /\ store'[sub] # NoCheckpoint
             /\ store'[sub].next = <<"pause_here">>
             /\ store'[sub].values.current_task = "awaiting_option_choice"]_vars

\* the nodes of the latest run
RanNodes == {hil_run.trace[i] : i \in 1..Len(hil_run.trace)}

\* C16: no run of the workflow holds both propose_action and execute_action:
\* the run that proposes ends paused, and execute_action runs only in a run
\* that resumes a workflow paused on awaiting_action_approval with one more
\* message than it had.
C16_PauseBeforeExecute ==
    /\ ~("propose_action" \in RanNodes /\ "execute_action" \in RanNodes)
    /\ "execute_action" \in RanNodes
         => /\ hil_run.resumed
            /\ hil_run.task_before = "awaiting_action_approval"
            /\ hil_run.messages_after = hil_run.messages_before + 1
    /\ (hil_run.trace # <<>> /\ hil_run.trace[Len(hil_run.trace)] = "propose_action")
         => /\ hil_run.branch = "paused"
            /\ store[hil_run.thread].next = <<"pause_here">>

\* the executor ran, in a run that resumed from the pause after a proposal
C16_Witness ==
    /\ hil_run.executor_ran
    /\ hil_run.resumed
    /\ hil_run.task_before = "awaiting_action_approval"
    /\ hil_run.trace = <<"smart_entry", "wait_for_user",
                         "execute_action", "present_options">>
    /\ hil_run.messages_after = 3

\* C17: the executor runs only when the reply to the proposal approves it.
C17_ExecuteOnlyIfApproved ==
    hil_run.executor_ran => hil_run.reply = "yes"

\* whether a current_task counts as set
IsSet(task) == task \notin {PyNone, "", "None"}

\* C18: smart_entry_router goes to wait_for_user exactly when current_task is
\* set and the state has more than one message, and to clarify_context
\* otherwise.
C18_EntryRouting ==
    routing.entry # "None"
        => /\ routing.entry \in {"wait_for_user", "clarify_context"}
           /\ routing.entry = "wait_for_user"
                <=> (IsSet(routing.current_task) /\ routing.messages > 1)

\* a state with a task and a single message went to clarify_context
C18_Witness ==
    /\ routing.current_task = "awaiting_action_approval"
    /\ routing.messages = 1
    /\ routing.entry = "clarify_context"

\* C19: a run that ends on the branch that asks for no further pause leaves
\* no checkpoint for the thread of the workflow, and the next run for the
\* same session starts from clarify_context with a single message.
C19_TerminalDeletesCheckpoint ==
    [][\A p \in ParentThreads :
          LET sub == sub_graph_thread_id(p) IN
          /\ (IsHandle(p) /\ hil_run'.branch = "finished")
               => store'[sub] = NoCheckpoint
          /\ (Entered(p) /\ session[p].current_task = "technical_support_complete"
                         /\ store[sub] = NoCheckpoint)
               => /\ ~hil_run'.resumed
                  /\ hil_run'.trace = <<"smart_entry", "clarify_context">>
                  /\ hil_run'.messages_after = 1
                  /\ store'[sub].values.current_task = "awaiting_context"]_vars

\* a session whose workflow ended, and was started again by its next message
C19_Witness ==
    \E p \in ParentThreads :
        /\ session[p].current_task = "technical_support_complete"
        /\ session[p].messages > 1
        /\ handled = p
        /\ ~hil_run.resumed
        /\ hil_run.trace = <<"smart_entry", "clarify_context">>
        /\ store[sub_graph_thread_id(p)] # NoCheckpoint
        /\ store[sub_graph_thread_id(p)].values.messages = 1

\* C20: distinct parent threads have distinct workflow threads, and a run
\* for one session changes neither the checkpoint nor the state of another.
C20_SessionsIndependent ==
    [][\A p \in ParentThreads : \A q \in ParentThreads \ {p} :
          IsHandle(p)
          => /\ sub_graph_thread_id(p) # sub_graph_thread_id(q)
             /\ store'[sub_graph_thread_id(q)] = store[sub_graph_thread_id(q)]
             /\ session'[q] = session[q]]_vars

\* two sessions paused at different places of their workflows
C20_Witness ==
    /\ store[sub_graph_thread_id(<<"t1">>)] # NoCheckpoint
    /\ store[sub_graph_thread_id(<<"t2">>)] # NoCheckpoint
    /\ store[sub_graph_thread_id(<<"t1">>)].values.current_task = "awaiting_action_approval"
    /\ store[sub_graph_thread_id(<<"t2">>)].values.current_task = "awaiting_context"
    /\ handled = <<"t2">>

C22_MissingCheckpointStartsFresh ==
    [][\A p \in ParentThreads :
          LET sub == sub_graph_thread_id(p) IN
          (Entered(p) /\ (store[sub] = NoCheckpoint \/ store[sub].next = <<>>))
          => /\ ~hil_run'.resumed
             /\ hil_run'.entry_task = PyNone
             /\ hil_run'.trace = <<"smart_entry", "clarify_context">>
             /\ hil_run'.branch = "paused"
             /\ hil_run'.failed = {}
             /\ session'[p].errors = session[p].errors
             /\ session'[p].current_task = session[p].current_task
             /\ session'[p].hil_message = ClarifyQuestion
             /\ store'[sub].values.current_task = "awaiting_context"]_vars

\* a session that carries a current_task of its own, and has sent several
\* messages, started its workflow without a checkpoint
C22_Witness ==
    /\ handled \in ParentThreads
    /\ session[handled].current_task = "technical_support_error"
    /\ session[handled].messages > 1
    /\ ~hil_run.resumed
    /\ hil_run.messages_before = 0
    /\ hil_run.trace = <<"smart_entry", "clarify_context">>

\* C23: a session that holds a prompt (hil_message is not None) has a
\* workflow that is paused: the checkpoint of its thread is there and waits
\* before pause_here; and the run that finishes a workflow leaves the session
\* without a prompt.
C23_PromptImpliesPaused ==
    /\ \A p \in ParentThreads :
          session[p].hil_message # PyNone
          => /\ store[sub_graph_thread_id(p)] # NoCheckpoint
             /\ store[sub_graph_thread_id(p)].next = <<"pause_here">>
             /\ store[sub_graph_thread_id(p)].values.hil_message = session[p].hil_message
    /\ hil_run.branch = "finished" => session[handled].hil_message = PyNone

\* the workflow of a session that held the prompt of a proposal has finished,
\* and the session holds no prompt and no checkpoint
C23_Witness ==
    /\ hil_run.branch = "finished"
    /\ hil_run.task_before = "awaiting_action_approval"
    /\ session[handled].hil_message = PyNone
    /\ session[handled].current_task = "technical_support_complete"
    /\ store[hil_run.thread] = NoCheckpoint

\* ---- WorkQueue ----------------------------------------------------------

\* the rank of a triage label: a label that is none of the three counts as
\* medium
LabelRank(label) ==
    CASE label = "high"   -> 3
      [] label = "low"    -> 1
      [] OTHER            -> 2

\* the claims that a step adds: the tasks that a worker pulls in it
Pulled == claims' \ claims

\* the claims that a step ends: the tasks whose handler runs in it
Ran == claims \ claims'

ProcessedIds == {r.id : r \in processed}

\* C24: whenever a worker pulls a task, no task that is left waiting has a
\* higher priority than the one pulled, the priority being the one of the
\* triage label the message was enqueued with; after low, high, medium the
\* pulls are high, medium, low
C24_StrictPriorityOrder ==
    [][\A c \in Pulled : \A k \in 1..Len(waiting') :
          LabelRank(waiting'[k].label) <= LabelRank(c.task.label)]_vars

\* three messages enqueued as low, high, medium before any pull, and pulled
\* as high, medium, low
C24_Witness ==
    /\ enqueued = 3
    /\ waiting = <<>>
    /\ dequeued = <<"high", "medium", "low">>
    /\ \E c \in claims : c.task.id = 1 /\ c.task.label = "low" /\ c.task.priority = "LOW"
    /\ \E r \in processed : r.id = 2
    /\ \E r \in processed : r.id = 3

\* C25: among the tasks of one priority the one pulled is the one that was
\* enqueued first
C25_FifoWithinTier ==
    [][\A c \in Pulled : \A k \in 1..Len(waiting') :
          waiting'[k].priority = c.task.priority => c.task.id < waiting'[k].id]_vars

\* a task is held by a worker while a task of the same priority that was
\* enqueued after it, and one of a lower priority enqueued before both, wait
C25_Witness ==
    \E c \in claims :
        /\ Len(waiting) = 2
        /\ waiting[1].id < c.task.id
        /\ Rank(waiting[1].priority) < Rank(c.task.priority)
        /\ waiting[2].id > c.task.id
        /\ waiting[2].priority = c.task.priority

\* C26: a handler that raises leaves its worker ready to pull again and the
\* other workers as they were, and whenever enqueued tasks are not processed
\* yet, all the tasks enqueued are processed in the end, whatever the
\* handlers of the tasks before them did
C26_FailureIsolatedPerTask ==
    /\ [][\A c \in Ran :
             /\ worker'[c.worker] = "idle"
             /\ \A w \in Workers \ {c.worker} : worker'[w] = worker[w]
             /\ waiting' = waiting]_vars
    /\ (ProcessedIds # 1..enqueued) ~> (ProcessedIds = 1..enqueued)

\* the handler of the first task raised, a task that was enqueued after it
\* has been processed, and the worker whose handler raised holds a further
\* task
C26_Witness ==
    \E r1, r2 \in processed, c \in claims :
        /\ r1.id = 1
        /\ r1.raised
        /\ r2.id > 1
        /\ ~r2.raised
        /\ c.worker = r1.worker
        /\ c.task.id > r2.id

\* C27: every task that was enqueued is in exactly one place: waiting, held
\* by one worker, or processed once; a worker holds at most one task, and it
\* is busy exactly while it holds one
C27_ClaimedByOneWorker ==
    /\ \A c1, c2 \in claims :
          (c1.task.id = c2.task.id \/ c1.worker = c2.worker) => c1 = c2
    /\ \A r1, r2 \in processed : r1.id = r2.id => r1 = r2
    /\ \A c \in claims :
          /\ c.task.id \notin ProcessedIds
          /\ \A k \in 1..Len(waiting) : waiting[k].id # c.task.id
    /\ \A k \in 1..Len(waiting) : waiting[k].id \notin ProcessedIds
    /\ \A j, k \in 1..Len(waiting) : waiting[j].id = waiting[k].id => j = k
    /\ Len(waiting) + Cardinality(claims) + Cardinality(processed) = enqueued
    /\ Len(dequeued) = Cardinality(claims) + Cardinality(processed)
    /\ \A w \in Workers : worker[w] = "busy" <=> \E c \in claims : c.worker = w

\* every worker holds a task of its own at the same time
C27_Witness ==
    /\ Cardinality(claims) = NumWorkers
    /\ \A w \in Workers : \E c \in claims : c.worker = w
    /\ Cardinality({c.task.id : c \in claims}) = NumWorkers

\* ---- EventBus -----------------------------------------------------------

\* a step that is a call of dispatch
IsDispatch == dispatch_log'.n = dispatch_log.n + 1

\* the tasks that a call of dispatch created, in the order of their creation
Created == SubSeq(tasks', Len(tasks) + 1, Len(tasks'))

\* the number of the tasks of a sequence that run handler h
TasksOf(seq, h) == Cardinality({k \in 1..Len(seq) : seq[k].handler = h})

\* the number of registrations of any handler for a type
RegisteredFor(type) ==
    registered.count[type, "sample_handler"] + registered.count[type, "handle"]

\* C28: a call of dispatch creates, for every handler, as many tasks as the
\* handler was registered globally plus as it was registered for the type of
\* the event; every task gets the event that was dispatched; the tasks of
\* earlier calls stay as they were
C28_DispatchSchedulesRegistered ==
    [][IsDispatch =>
          LET event == dispatch_log'.event IN
              /\ \A k \in 1..Len(Created) : Created[k].event = event
              /\ \A h \in HandlerFuncs :
                    TasksOf(Created, h) = registered.count["global", h]
                                            + registered.count[event.event_type, h]
              /\ dispatch_log'.created = Len(Created)
              /\ SubSeq(tasks', 1, Len(tasks)) = tasks]_vars

\* sample_handler is a global handler and handle is registered for the type
\* of the event: the dispatch has scheduled both, the global one first
C28_Witness ==
    /\ dispatch_log.n = 1
    /\ registered.count["global", "sample_handler"] = 1
    /\ registered.count[dispatch_log.event.event_type, "handle"] = 1
    /\ Len(tasks) = 2
    /\ tasks[1].handler = "sample_handler"
    /\ tasks[2].handler = "handle"
    /\ tasks[1].event = dispatch_log.event
    /\ tasks[2].event = dispatch_log.event

\* C29 as stated: a dispatch of an event for whose type no handler is
\* registered does not raise and creates no task
C29_NoHandlersNoCallbacks ==
    [][(IsDispatch /\ RegisteredFor(dispatch_log'.event.event_type) = 0) =>
          /\ ~dispatch_log'.raises
          /\ Len(Created) = 0]_vars

\* C29, amended: a dispatch of an event for whose type no handler is
\* registered does not raise and creates tasks for the global handlers only,
\* one per registration; it creates none when no global handler is registered
C29_NoHandlersOnlyGlobalCallbacks ==
    [][(IsDispatch /\ RegisteredFor(dispatch_log'.event.event_type) = 0) =>
          /\ ~dispatch_log'.raises
          /\ dispatch_log'.event.event_type \notin DOMAIN handlers
          /\ \A h \in HandlerFuncs :
                TasksOf(Created, h) = registered.count["global", h]
          /\ (global_handlers = <<>> => Len(Created) = 0)]_vars

\* an event was dispatched for whose type no handler is registered, while
\* handle is registered for another type and sample_handler globally: the
\* only task is the one of the global handler
C29_Witness ==
    /\ dispatch_log.n = 1
    /\ ~dispatch_log.raises
    /\ RegisteredFor(dispatch_log.event.event_type) = 0
    /\ \E t \in EventTypes : registered.count[t, "handle"] = 1
    /\ registered.count["global", "sample_handler"] = 1
    /\ Len(tasks) = 1
    /\ tasks[1].handler = "sample_handler"

\* C30: dispatch returns None and does not raise, and when it returns none of
\* the tasks it created has run; the run of a task, whatever its outcome,
\* changes nothing of what dispatch gave its caller; and whenever tasks wait
\* for their first step, all of them have taken it in the end, whatever the
\* tasks before them did
C30_DispatchIsFireAndForget ==
    /\ [][IsDispatch =>
             /\ dispatch_log'.result = PyNone
             /\ ~dispatch_log'.raises
             /\ \A k \in 1..Len(Created) : Created[k].status = "pending"]_vars
    /\ [][(tasks' # tasks /\ ~IsDispatch) => dispatch_log' = dispatch_log]_vars
    /\ (\E i \in 1..Len(tasks) : tasks[i].status = "pending")
          ~> (\A i \in 1..Len(tasks) : tasks[i].status # "pending")

\* the first handler of an event raised, and the second handler of the same
\* event has run to its end; the caller of dispatch got None and no exception
C30_Witness ==
    /\ Len(tasks) = 2
    /\ tasks[1].event = tasks[2].event
    /\ tasks[1].status = "raised"
    /\ tasks[2].status = "done"
    /\ dispatch_log.result = PyNone
    /\ ~dispatch_log.raises

\* ---- frame of add_tool_result --------------------------------------------

\* C36: a call of add_tool_result leaves the tool_results list of the state
\* it was given with the entries it had before the call
C36_InputStateUnchanged ==
    [][issued' = issued + 1 => arg_tool_results' = state.context.tool_results]_vars

\* ---- several ACT lines ---------------------------------------------------

\* C38: the action parsed from a response with ACT lines is the one its last
\* ACT line gives, whatever the ACT lines before it name: the value of that
\* line in lower case when it is one of VALID_ACTIONS, and complete when it
\* is not
C38_LastActLineDecides ==
    (decision # NoParse /\ HasActLine(response)) =>
        LET words == ActWords(response, LastAct(response)) IN
        decision.action =
            IF Len(words) = 1 /\ lowerToken(words[1]) \in VALID_ACTIONS
            THEN lowerToken(words[1])
            ELSE "complete"

\* a response whose first ACT line names a valid action and whose second ACT
\* line has no value was parsed to complete
C38_Witness ==
    /\ response = <<"ACT:", "web_search", "\n", "ACT:">>
    /\ decision # NoParse
    /\ decision.action = "complete"

\* ---- the confirmation workflow, end to end -------------------------------

\* the latest run of the workflow took the terminal branch of resume routing
TookTerminalBranch ==
    /\ hil_run.trace # <<>>
    /\ hil_run.trace[Len(hil_run.trace)] = "wait_for_user"
    /\ hil_run.next = <<>>

ResumeNeverEnds ==
    hil_run.trace # <<>> => (~TookTerminalBranch /\ hil_run.next = <<"pause_here">>)

AwaitingTasks == {"awaiting_context", "awaiting_action_approval", "awaiting_option_choice"}

\* C34: a run of the workflow that stops at the pause leaves a state whose
\* current_task is one of the three awaiting tags and whose hil_message is not
\* None, and so does every checkpoint that is stored; after clarify_context
\* the tag is awaiting_context, after propose_action awaiting_action_approval
\* or, when it failed, awaiting_context, after present_options
\* awaiting_option_choice
C34_PausedStateIsAwaiting ==
    /\ hil_run.next # <<>> =>
          /\ hil_run.task_after \in AwaitingTasks
          /\ hil_run.prompt # PyNone
          /\ LET last == hil_run.trace[Len(hil_run.trace)] IN
             hil_run.task_after =
                CASE last = "clarify_context" -> "awaiting_context"
                  [] last = "propose_action"  ->
                        IF "propose_action" \in hil_run.failed THEN "awaiting_context"
                        ELSE "awaiting_action_approval"
                  [] last = "present_options" -> "awaiting_option_choice"
                  [] OTHER                    -> "no pause after this node"
    /\ \A t \in SubThreads :
          store[t] # NoCheckpoint =>
              /\ store[t].next = <<"pause_here">>
              /\ store[t].values.current_task \in AwaitingTasks
              /\ store[t].values.hil_message # PyNone

\* one workflow is paused after present_options, which failed and fell back
\* to its own text
C34_Witness ==
    /\ hil_run.next = <<"pause_here">>
    /\ hil_run.failed = {"present_options"}
    /\ hil_run.task_after = "awaiting_option_choice"
    /\ hil_run.prompt = PresentFallback
    /\ store[hil_run.thread] # NoCheckpoint
    /\ store[hil_run.thread].values.current_task = "awaiting_option_choice"

\* C35: a run that holds execute_action has run the executor exactly when the
\* context that the workflow held recorded a proposal of github_toolkit; when
\* it has not, the result recorded has status error and the run still goes on
\* to present_options and stops at the pause
C35_ExecutorOnlyForGithubProposal ==
    [][\A p \in ParentThreads :
          LET sub == sub_graph_thread_id(p) IN
          (Entered(p) /\ "execute_action" \in {hil_run'.trace[i] : i \in 1..Len(hil_run'.trace)})
          => /\ store[sub] # NoCheckpoint
             /\ hil_run'.executor_ran
                  <=> store[sub].values.context.supervisor_decision.action = "github_toolkit"
             /\ ~hil_run'.executor_ran =>
                  /\ hil_run'.task_result = "error"
                  /\ "execute_action" \in hil_run'.failed
             /\ hil_run'.trace = <<"smart_entry", "wait_for_user",
                                   "execute_action", "present_options">>
             /\ hil_run'.next = <<"pause_here">>
             /\ hil_run'.task_after = "awaiting_option_choice"]_vars

\* the proposal named web_search: the run after the reply held execute_action,
\* the executor was not run, the result is an error and the workflow is paused
\* after present_options
C35_Witness ==
    /\ "execute_action" \in RanNodes
    /\ ~hil_run.executor_ran
    /\ hil_run.task_result = "error"
    /\ hil_run.task_before = "awaiting_action_approval"
    /\ hil_run.prompt = "summary"
    /\ store[hil_run.thread] # NoCheckpoint
    /\ store[hil_run.thread].values.context.supervisor_decision.action = "web_search"
    /\ store[hil_run.thread].next = <<"pause_here">>

\* ---- RateLimiter ----------------------------------------------------------

\* a call of is_allowed for the identifier
IsRequest(identifier) ==
    /\ verdict'.n = verdict.n + 1
    /\ verdict'.identifier = identifier

Refused == ~verdict'.is_allowed /\ verdict'.retry_after # NoRetry /\ verdict'.retry_after[1] > 0

\* the calls that the identifier has made within the last 60 seconds
CallsInLastMinute(identifier) ==
    Len(SelectSeq(call_times[identifier], LAMBDA t : t > clock - MinuteWindow))

\* the requests of the identifier that were allowed within the last 60 seconds
AllowedInLastMinute(identifier) ==
    SumCounts(Since(limiter.request_history[identifier], clock - MinuteWindow))

\* C32, as stated: the first request of an identifier is allowed with
\* (True, None), and a call of an identifier that has made
\* requests_per_minute calls within the last 60 seconds is refused with a
\* positive retry_after
C32_RefusesAfterLimitCalls ==
    [][\A identifier \in Identifiers :
          IsRequest(identifier) =>
             /\ call_times[identifier] = <<>> =>
                   (verdict'.is_allowed /\ verdict'.retry_after = NoRetry)
             /\ CallsInLastMinute(identifier) >= limiter.limits.requests_per_minute =>
                   Refused]_vars

\* C32, amended: the first request of an identifier is allowed with
\* (True, None), and a call of an identifier for which requests_per_minute
\* requests were allowed within the last 60 seconds is refused with a
\* positive retry_after
C32_RefusesAfterLimitAllowed ==
    [][\A identifier \in Identifiers :
          IsRequest(identifier) =>
             /\ call_times[identifier] = <<>> =>
                   (verdict'.is_allowed /\ verdict'.retry_after = NoRetry)
             /\ AllowedInLastMinute(identifier) >= limiter.limits.requests_per_minute =>
                   Refused]_vars

\* an identifier had two requests allowed a second apart and was refused the
\* third for a minute, by a limiter that allows two a minute and three an hour
C32_Witness ==
    /\ limiter.limits = [requests_per_minute |-> 2, requests_per_hour |-> 3, burst_size |-> 1]
    /\ verdict.n = 3
    /\ ~verdict.is_allowed
    /\ verdict.retry_after = Retry(60)
    /\ Len(limiter.request_history[verdict.identifier]) = 2
    /\ call_times[verdict.identifier] = <<0, 1, 1>>

\* ---- handlers on an event loop of their own -------------------------------

OnlyOwnLoopCancels ==
    [][\A i \in 1..Len(tasks) :
          (tasks[i].status # "cancelled" /\ tasks'[i].status = "cancelled")
          => (i \in own_loop.tasks /\ tasks[i].status = "suspended" /\ ~own_loop'.open)]_vars

\* ---- two workers on one session -------------------------------------------

\* the state holds the entry that the task added
HoldsEntry(st, job) ==
    \E i \in 1..Len(st.context.tool_results) :
        st.context.tool_results[i].result.tag = job

\* the tasks that added an entry to tool_results
Appended(done) == {d \in done : d.tool # "None"}

\* C31: nothing keeps a worker from taking a task of a session while another
\* worker runs one, and when a worker stores its state, the entry of every
\* task that was stored since it loaded the state is gone from tool_results,
\* while the entry of its own task is there
C31_StaleStoreOverwrites ==
    [][\A w \in RaceWorkers :
          (in_flight[w].status = "ran" /\ in_flight'[w].status = "idle") =>
             /\ \A d \in Appended(completed \ in_flight[w].seen) :
                   ~HoldsEntry(saved_state', d.job)
             /\ in_flight[w].tool # "None" => HoldsEntry(saved_state', in_flight[w].job)
             /\ saved_state'.context.iteration_count
                   = in_flight[w].state.context.iteration_count]_vars

\* two tasks of the session have run a tool and are over, and tool_results
\* holds the entry of the second only
C31_Witness ==
    /\ Appended(completed) = {[job |-> 1, tool |-> "web_search"],
                              [job |-> 2, tool |-> "faq_handler"]}
    /\ \A w \in RaceWorkers : in_flight[w].status = "idle"
    /\ Len(saved_state.context.tool_results) = 1
    /\ HoldsEntry(saved_state, 2)
    /\ ~HoldsEntry(saved_state, 1)

====
